---------------------------- MODULE Spec2Model ----------------------------
(***************************************************************************)
(* The handlers of src/app/api/search/route.ts: GET with                   *)
(* generateUltraFastSuggestions and the module-level suggestionCache, and  *)
(* POST with the snippets of its results and its two provider calls; the   *)
(* middleware and pages that guard /account; and the search page of        *)
(* src/app/page.tsx with its debounced suggestions.  A string is a         *)
(* sequence of one-character strings, so that toLowerCase, trim, split,    *)
(* substring, startsWith and includes are computed character by character  *)
(* as the JavaScript built-ins compute them.                               *)
(***************************************************************************)
EXTENDS Integers, Sequences, FiniteSets, TLC

---------------------------------------------------------------------------
(* Bounds of the model *)

\* The cache bound of route.ts:328 is 1000; the model runs the same code
\* with a smaller bound so that the over-bound branch is reached.
MaxCacheSize == 3

---------------------------------------------------------------------------
(* JavaScript string and array built-ins used by the handler *)

upperToLower ==
  ("A" :> "a") @@ ("B" :> "b") @@ ("C" :> "c") @@ ("D" :> "d") @@ ("E" :> "e") @@ ("F" :> "f") @@ ("G" :> "g") @@ ("H" :> "h") @@ ("I" :> "i") @@ ("J" :> "j") @@ ("K" :> "k") @@ ("L" :> "l") @@ ("M" :> "m") @@ ("N" :> "n") @@ ("O" :> "o") @@ ("P" :> "p") @@ ("Q" :> "q") @@ ("R" :> "r") @@ ("S" :> "s") @@ ("T" :> "t") @@ ("U" :> "u") @@ ("V" :> "v") @@ ("W" :> "w") @@ ("X" :> "x") @@ ("Y" :> "y") @@ ("Z" :> "z")

toLowerCaseChar(c) == IF c \in DOMAIN upperToLower THEN upperToLower[c] ELSE c

\* The tuple with the elements of f (a function on 1..n)
tuple(f) == SubSeq(f, 1, Len(f))

toLowerCase(s) == tuple([i \in 1..Len(s) |-> toLowerCaseChar(s[i])])

isWhiteSpace(c) == c \in {" ", "\t", "\n", "\r"}

RECURSIVE trimStart(_)
trimStart(s) ==
  IF s # <<>> /\ isWhiteSpace(Head(s)) THEN trimStart(Tail(s)) ELSE s

RECURSIVE trimEnd(_)
trimEnd(s) ==
  IF s # <<>> /\ isWhiteSpace(s[Len(s)])
  THEN trimEnd(SubSeq(s, 1, Len(s) - 1))
  ELSE s

trim(s) == trimEnd(trimStart(s))

startsWith(s, p) == Len(p) <= Len(s) /\ SubSeq(s, 1, Len(p)) = p

includes(s, p) ==
  \E i \in 0..(Len(s) - Len(p)) : SubSeq(s, i + 1, i + Len(p)) = p

\* s.substring(n) for 0 <= n <= s.length
substring(s, n) == SubSeq(s, n + 1, Len(s))

\* s.split(sep) for a one-character separator: the pieces between the
\* occurrences of sep, the empty ones included
split(s, sep) ==
  LET cuts == SelectSeq(tuple([i \in 1..Len(s) |-> i]), LAMBDA i : s[i] = sep)
      n    == Len(cuts)
  IN  tuple([k \in 1..(n + 1) |->
         SubSeq(s, IF k = 1 THEN 1 ELSE cuts[k - 1] + 1,
                   IF k = n + 1 THEN Len(s) ELSE cuts[k] - 1)])

RECURSIVE join(_, _)
join(ws, sep) ==
  IF ws = <<>> THEN <<>>
  ELSE IF Len(ws) = 1 THEN ws[1]
  ELSE ws[1] \o sep \o join(Tail(ws), sep)

RECURSIVE flat(_)
flat(xss) ==
  IF xss = <<>> THEN <<>>
  ELSE IF Len(xss) = 1 THEN xss[1]
  ELSE LET h == Len(xss) \div 2
       IN  flat(SubSeq(xss, 1, h)) \o flat(SubSeq(xss, h + 1, Len(xss)))

range(xs) == {xs[i] : i \in 1..Len(xs)}

\* [...new Set(xs)]: the first occurrence of each element, in order.
\* Computed by halves: a set built from xs keeps what the set built from the
\* first half keeps, then the elements of the second half not yet in it.
RECURSIVE dedupe(_)
dedupe(xs) ==
  IF Len(xs) <= 1 THEN xs
  ELSE LET h     == Len(xs) \div 2
           left  == dedupe(SubSeq(xs, 1, h))
           seen  == range(left)
           right == dedupe(SubSeq(xs, h + 1, Len(xs)))
       IN  left \o SelectSeq(right, LAMBDA x : x \notin seen)

\* As slice0, but one element too many: slice(0, end + 1)
slice0_oneMore(xs, end) ==
  LET e == IF end.nan THEN 0 ELSE end.n + 1
      k == IF e < 0
           THEN (IF Len(xs) + e < 0 THEN 0 ELSE Len(xs) + e)
           ELSE (IF e < Len(xs) THEN e ELSE Len(xs))
  IN  SubSeq(xs, 1, k)

\* Array.prototype.slice(0, end) with end a number or NaN
\* (ToIntegerOrInfinity(NaN) = 0; a negative end counts from the back).
slice0(xs, end) ==
  LET e == IF end.nan THEN 0 ELSE end.n
      k == IF e < 0
           THEN (IF Len(xs) + e < 0 THEN 0 ELSE Len(xs) + e)
           ELSE (IF e < Len(xs) THEN e ELSE Len(xs))
  IN  SubSeq(xs, 1, k)

digits == <<"0", "1", "2", "3", "4", "5", "6", "7", "8", "9">>

digitValue(c) == (CHOOSE i \in 1..10 : digits[i] = c) - 1

isDigit(c) == \E i \in 1..10 : digits[i] = c

RECURSIVE digitPrefix(_, _, _)
digitPrefix(s, acc, seen) ==
  IF s # <<>> /\ isDigit(Head(s))
  THEN digitPrefix(Tail(s), 10 * acc + digitValue(Head(s)), TRUE)
  ELSE [nan |-> ~seen, n |-> acc]

\* parseInt(s) in radix 10: leading white space, an optional sign, then the
\* longest prefix of decimal digits; NaN when there is no digit.
parseInt(s) ==
  LET t    == trimStart(s)
      neg  == t # <<>> /\ Head(t) = "-"
      body == IF t # <<>> /\ Head(t) \in {"-", "+"} THEN Tail(t) ELSE t
      p    == digitPrefix(body, 0, FALSE)
  IN  IF p.nan THEN [nan |-> TRUE, n |-> 0]
      ELSE [nan |-> FALSE, n |-> IF neg THEN 0 - p.n ELSE p.n]

---------------------------------------------------------------------------
(* The fixed tables of generateUltraFastSuggestions *)

completions(word) ==
  << word \o <<" ", "t", "u", "t", "o", "r", "i", "a", "l">>,
     word \o <<" ", "g", "u", "i", "d", "e">>,
     word \o <<" ", "e", "x", "a", "m", "p", "l", "e", "s">>,
     word \o <<" ", "d", "e", "f", "i", "n", "i", "t", "i", "o", "n">>,
     word \o <<" ", "m", "e", "a", "n", "i", "n", "g">>,
     word \o <<" ", "b", "e", "n", "e", "f", "i", "t", "s">>,
     word \o <<" ", "a", "l", "t", "e", "r", "n", "a", "t", "i", "v", "e", "s">>,
     word \o <<" ", "c", "o", "m", "p", "a", "r", "i", "s", "o", "n">>,
     <<"h", "o", "w", " ", "t", "o", " ">> \o word,
     <<"w", "h", "a", "t", " ", "i", "s", " ">> \o word,
     <<"b", "e", "s", "t", " ">> \o word,
     word \o <<" ", "f", "o", "r", " ", "b", "e", "g", "i", "n", "n", "e", "r", "s">>,
     word \o <<" ", "t", "i", "p", "s">>,
     word \o <<" ", "t", "r", "i", "c", "k", "s">>,
     word \o <<" ", "r", "e", "v", "i", "e", "w">>,
     word \o <<" ", "v", "s">>,
     <<"l", "e", "a", "r", "n", " ">> \o word,
     <<"m", "a", "s", "t", "e", "r", " ">> \o word,
     <<"u", "n", "d", "e", "r", "s", "t", "a", "n", "d", " ">> \o word,
     word \o <<" ", "e", "x", "p", "l", "a", "i", "n", "e", "d">> >>

variations(baseQuery) ==
  << baseQuery \o <<" ", "t", "u", "t", "o", "r", "i", "a", "l">>,
     baseQuery \o <<" ", "g", "u", "i", "d", "e">>,
     baseQuery \o <<" ", "e", "x", "a", "m", "p", "l", "e", "s">>,
     baseQuery \o <<" ", "b", "e", "n", "e", "f", "i", "t", "s">>,
     baseQuery \o <<" ", "a", "l", "t", "e", "r", "n", "a", "t", "i", "v", "e", "s">>,
     baseQuery \o <<" ", "c", "o", "m", "p", "a", "r", "i", "s", "o", "n">>,
     baseQuery \o <<" ", "r", "e", "v", "i", "e", "w">>,
     baseQuery \o <<" ", "t", "i", "p", "s">>,
     baseQuery \o <<" ", "t", "r", "i", "c", "k", "s">>,
     <<"b", "e", "s", "t", " ">> \o baseQuery,
     <<"h", "o", "w", " ", "t", "o", " ">> \o baseQuery,
     <<"w", "h", "a", "t", " ", "i", "s", " ">> \o baseQuery,
     baseQuery \o <<" ", "f", "o", "r", " ", "b", "e", "g", "i", "n", "n", "e", "r", "s">>,
     baseQuery \o <<" ", "e", "x", "p", "l", "a", "i", "n", "e", "d">>,
     baseQuery \o <<" ", "v", "s">>,
     <<"l", "e", "a", "r", "n", " ">> \o baseQuery,
     <<"m", "a", "s", "t", "e", "r", " ">> \o baseQuery,
     <<"u", "n", "d", "e", "r", "s", "t", "a", "n", "d", " ">> \o baseQuery >>

partialCompletions(partial) ==
  << partial \o <<" ", "t", "u", "t", "o", "r", "i", "a", "l">>,
     partial \o <<" ", "g", "u", "i", "d", "e">>,
     partial \o <<" ", "e", "x", "a", "m", "p", "l", "e", "s">> >>

questionPatterns ==
  << <<"w", "h", "a", "t", " ", "i", "s">>,
     <<"h", "o", "w", " ", "t", "o">>,
     <<"w", "h", "y", " ", "i", "s">>,
     <<"w", "h", "e", "n", " ", "i", "s">>,
     <<"w", "h", "e", "r", "e", " ", "i", "s">>,
     <<"w", "h", "o", " ", "i", "s">>,
     <<"w", "h", "a", "t", " ", "a", "r", "e">>,
     <<"h", "o", "w", " ", "a", "r", "e">>,
     <<"w", "h", "y", " ", "a", "r", "e">>,
     <<"w", "h", "e", "n", " ", "a", "r", "e">>,
     <<"w", "h", "e", "r", "e", " ", "a", "r", "e">>,
     <<"w", "h", "o", " ", "a", "r", "e">>,
     <<"w", "h", "a", "t", " ", "d", "o", "e", "s">>,
     <<"h", "o", "w", " ", "d", "o", "e", "s">>,
     <<"w", "h", "y", " ", "d", "o", "e", "s">>,
     <<"w", "h", "e", "n", " ", "d", "o", "e", "s">>,
     <<"w", "h", "e", "r", "e", " ", "d", "o", "e", "s">>,
     <<"w", "h", "o", " ", "d", "o", "e", "s">>,
     <<"w", "h", "a", "t", " ", "c", "a", "n">>,
     <<"h", "o", "w", " ", "c", "a", "n">>,
     <<"w", "h", "y", " ", "c", "a", "n">>,
     <<"w", "h", "e", "n", " ", "c", "a", "n">>,
     <<"w", "h", "e", "r", "e", " ", "c", "a", "n">>,
     <<"w", "h", "o", " ", "c", "a", "n">>,
     <<"h", "o", "w", " ", "m", "u", "c", "h">>,
     <<"h", "o", "w", " ", "m", "a", "n", "y">>,
     <<"h", "o", "w", " ", "l", "o", "n", "g">>,
     <<"h", "o", "w", " ", "o", "f", "t", "e", "n">>,
     <<"h", "o", "w", " ", "f", "a", "r">>,
     <<"h", "o", "w", " ", "f", "a", "s", "t">> >>

\* As questionCompletions, without the last two
questionCompletions_three(stem) ==
  << stem \o <<" ", "e", "x", "p", "l", "a", "i", "n", "e", "d">>,
     stem \o <<" ", "e", "x", "a", "m", "p", "l", "e", "s">>,
     stem \o <<" ", "b", "e", "n", "e", "f", "i", "t", "s">> >>

questionCompletions(stem) ==
  << stem \o <<" ", "e", "x", "p", "l", "a", "i", "n", "e", "d">>,
     stem \o <<" ", "e", "x", "a", "m", "p", "l", "e", "s">>,
     stem \o <<" ", "b", "e", "n", "e", "f", "i", "t", "s">>,
     stem \o <<" ", "w", "o", "r", "k">>,
     stem \o <<" ", "h", "e", "l", "p">> >>

questionFillers(pattern) ==
  << pattern \o <<" ", "t", "h", "i", "s">>,
     pattern \o <<" ", "t", "h", "a", "t">>,
     pattern \o <<" ", "i", "t">> >>

modifiers ==
  << <<"b", "e", "s", "t">>,
     <<"t", "o", "p">>,
     <<"l", "a", "t", "e", "s", "t">>,
     <<"n", "e", "w">>,
     <<"f", "r", "e", "e">>,
     <<"c", "h", "e", "a", "p">>,
     <<"e", "x", "p", "e", "n", "s", "i", "v", "e">>,
     <<"e", "a", "s", "y">>,
     <<"h", "a", "r", "d">>,
     <<"s", "i", "m", "p", "l", "e">>,
     <<"c", "o", "m", "p", "l", "e", "x">>,
     <<"q", "u", "i", "c", "k">>,
     <<"f", "a", "s", "t">>,
     <<"s", "l", "o", "w">>,
     <<"g", "o", "o", "d">>,
     <<"b", "a", "d">>,
     <<"g", "r", "e", "a", "t">>,
     <<"a", "w", "e", "s", "o", "m", "e">>,
     <<"a", "m", "a", "z", "i", "n", "g">>,
     <<"t", "e", "r", "r", "i", "b", "l", "e">>,
     <<"w", "o", "r", "s", "t">>,
     <<"p", "o", "p", "u", "l", "a", "r">>,
     <<"t", "r", "e", "n", "d", "i", "n", "g">>,
     <<"v", "i", "r", "a", "l">>,
     <<"f", "a", "m", "o", "u", "s">>,
     <<"u", "n", "k", "n", "o", "w", "n">>,
     <<"h", "i", "d", "d", "e", "n">>,
     <<"s", "e", "c", "r", "e", "t">>,
     <<"p", "r", "o", "f", "e", "s", "s", "i", "o", "n", "a", "l">>,
     <<"b", "e", "g", "i", "n", "n", "e", "r">>,
     <<"a", "d", "v", "a", "n", "c", "e", "d">>,
     <<"e", "x", "p", "e", "r", "t">>,
     <<"c", "o", "m", "p", "l", "e", "t", "e">>,
     <<"c", "o", "m", "p", "r", "e", "h", "e", "n", "s", "i", "v", "e">> >>

actions ==
  << <<"l", "e", "a", "r", "n">>,
     <<"s", "t", "u", "d", "y">>,
     <<"p", "r", "a", "c", "t", "i", "c", "e">>,
     <<"m", "a", "s", "t", "e", "r">>,
     <<"u", "n", "d", "e", "r", "s", "t", "a", "n", "d">>,
     <<"e", "x", "p", "l", "a", "i", "n">>,
     <<"b", "u", "i", "l", "d">>,
     <<"c", "r", "e", "a", "t", "e">>,
     <<"m", "a", "k", "e">>,
     <<"d", "e", "v", "e", "l", "o", "p">>,
     <<"d", "e", "s", "i", "g", "n">>,
     <<"p", "r", "o", "g", "r", "a", "m">>,
     <<"b", "u", "y">>,
     <<"s", "e", "l", "l">>,
     <<"r", "e", "n", "t">>,
     <<"h", "i", "r", "e">>,
     <<"f", "i", "n", "d">>,
     <<"s", "e", "a", "r", "c", "h">>,
     <<"d", "i", "s", "c", "o", "v", "e", "r">>,
     <<"c", "o", "m", "p", "a", "r", "e">>,
     <<"r", "e", "v", "i", "e", "w">>,
     <<"r", "a", "t", "e">>,
     <<"r", "e", "c", "o", "m", "m", "e", "n", "d">>,
     <<"s", "u", "g", "g", "e", "s", "t">>,
     <<"a", "d", "v", "i", "s", "e">>,
     <<"d", "o", "w", "n", "l", "o", "a", "d">>,
     <<"i", "n", "s", "t", "a", "l", "l">>,
     <<"s", "e", "t", "u", "p">>,
     <<"c", "o", "n", "f", "i", "g", "u", "r", "e">>,
     <<"o", "p", "t", "i", "m", "i", "z", "e">>,
     <<"i", "m", "p", "r", "o", "v", "e">> >>

topics ==
  << [triggers |-> << <<"a", "i">>, <<"a", "r", "t", "i", "f", "i", "c", "i", "a", "l">>, <<"m", "a", "c", "h", "i", "n", "e">> >>,
      suggestions |->
        << <<"a", "r", "t", "i", "f", "i", "c", "i", "a", "l", " ", "i", "n", "t", "e", "l", "l", "i", "g", "e", "n", "c", "e", " ", "a", "p", "p", "l", "i", "c", "a", "t", "i", "o", "n", "s">>,
           <<"a", "i", " ", "e", "t", "h", "i", "c", "s">>,
           <<"m", "a", "c", "h", "i", "n", "e", " ", "l", "e", "a", "r", "n", "i", "n", "g", " ", "b", "a", "s", "i", "c", "s">>,
           <<"a", "i", " ", "t", "o", "o", "l", "s", " ", "2", "0", "2", "4">> >>],
     [triggers |-> << <<"p", "r", "o", "g", "r", "a", "m", "m", "i", "n", "g">>, <<"c", "o", "d", "e">>, <<"d", "e", "v", "e", "l", "o", "p", "e", "r">> >>,
      suggestions |->
        << <<"p", "r", "o", "g", "r", "a", "m", "m", "i", "n", "g", " ", "l", "a", "n", "g", "u", "a", "g", "e", "s">>,
           <<"c", "o", "d", "i", "n", "g", " ", "b", "o", "o", "t", "c", "a", "m", "p">>,
           <<"s", "o", "f", "t", "w", "a", "r", "e", " ", "d", "e", "v", "e", "l", "o", "p", "m", "e", "n", "t">>,
           <<"w", "e", "b", " ", "d", "e", "v", "e", "l", "o", "p", "m", "e", "n", "t">> >>],
     [triggers |-> << <<"b", "u", "s", "i", "n", "e", "s", "s">>, <<"m", "a", "r", "k", "e", "t", "i", "n", "g">>, <<"s", "t", "a", "r", "t", "u", "p">> >>,
      suggestions |->
        << <<"b", "u", "s", "i", "n", "e", "s", "s", " ", "s", "t", "r", "a", "t", "e", "g", "y">>,
           <<"d", "i", "g", "i", "t", "a", "l", " ", "m", "a", "r", "k", "e", "t", "i", "n", "g">>,
           <<"e", "n", "t", "r", "e", "p", "r", "e", "n", "e", "u", "r", "s", "h", "i", "p">>,
           <<"b", "u", "s", "i", "n", "e", "s", "s", " ", "p", "l", "a", "n">> >>],
     [triggers |-> << <<"h", "e", "a", "l", "t", "h">>, <<"m", "e", "d", "i", "c", "a", "l">>, <<"w", "e", "l", "l", "n", "e", "s", "s">> >>,
      suggestions |->
        << <<"h", "e", "a", "l", "t", "h", " ", "r", "e", "s", "e", "a", "r", "c", "h">>,
           <<"m", "e", "d", "i", "c", "a", "l", " ", "t", "r", "e", "a", "t", "m", "e", "n", "t">>,
           <<"w", "e", "l", "l", "n", "e", "s", "s", " ", "t", "i", "p", "s">>,
           <<"m", "e", "n", "t", "a", "l", " ", "h", "e", "a", "l", "t", "h">> >>],
     [triggers |-> << <<"t", "r", "a", "v", "e", "l">>, <<"t", "r", "i", "p">>, <<"v", "a", "c", "a", "t", "i", "o", "n">> >>,
      suggestions |->
        << <<"t", "r", "a", "v", "e", "l", " ", "p", "l", "a", "n", "n", "i", "n", "g">>,
           <<"b", "u", "d", "g", "e", "t", " ", "t", "r", "a", "v", "e", "l">>,
           <<"t", "r", "a", "v", "e", "l", " ", "d", "e", "s", "t", "i", "n", "a", "t", "i", "o", "n", "s">>,
           <<"t", "r", "a", "v", "e", "l", " ", "t", "i", "p", "s">> >>],
     [triggers |-> << <<"f", "i", "n", "a", "n", "c", "e">>, <<"m", "o", "n", "e", "y">>, <<"i", "n", "v", "e", "s", "t", "m", "e", "n", "t">> >>,
      suggestions |->
        << <<"p", "e", "r", "s", "o", "n", "a", "l", " ", "f", "i", "n", "a", "n", "c", "e">>,
           <<"i", "n", "v", "e", "s", "t", "m", "e", "n", "t", " ", "s", "t", "r", "a", "t", "e", "g", "i", "e", "s">>,
           <<"b", "u", "d", "g", "e", "t", " ", "p", "l", "a", "n", "n", "i", "n", "g">>,
           <<"f", "i", "n", "a", "n", "c", "i", "a", "l", " ", "a", "d", "v", "i", "c", "e">> >>] >>

extensions ==
  << <<"t", "u", "t", "o", "r", "i", "a", "l">>,
     <<"g", "u", "i", "d", "e">>,
     <<"e", "x", "a", "m", "p", "l", "e", "s">>,
     <<"b", "e", "n", "e", "f", "i", "t", "s">>,
     <<"a", "l", "t", "e", "r", "n", "a", "t", "i", "v", "e", "s">>,
     <<"c", "o", "m", "p", "a", "r", "i", "s", "o", "n">>,
     <<"r", "e", "v", "i", "e", "w">>,
     <<"t", "i", "p", "s">>,
     <<"t", "r", "i", "c", "k", "s">>,
     <<"e", "x", "p", "l", "a", "i", "n", "e", "d">>,
     <<"b", "a", "s", "i", "c", "s">>,
     <<"a", "d", "v", "a", "n", "c", "e", "d">>,
     <<"f", "o", "r", " ", "b", "e", "g", "i", "n", "n", "e", "r", "s">>,
     <<"v", "s">>,
     <<"2", "0", "2", "4">>,
     <<"b", "e", "s", "t", " ", "p", "r", "a", "c", "t", "i", "c", "e", "s">>,
     <<"c", "o", "m", "m", "o", "n", " ", "m", "i", "s", "t", "a", "k", "e", "s">> >>

---------------------------------------------------------------------------
(* Candidate generation: route.ts:181-308 *)

space == <<" ">>

lowerQueryOf(query) == trim(toLowerCase(query))

wordsOf(lowerQuery) == SelectSeq(split(lowerQuery, " "), LAMBDA w : Len(w) > 0)

\* 1. Dynamic completions based on the actual query
dynamicCompletions(words) ==
  IF Len(words) = 1 THEN completions(words[1])
  ELSE IF Len(words) > 1
       THEN variations(join(words, space))
            \o flat([i \in 1..(Len(words) - 1) |->
                       partialCompletions(join(SubSeq(words, 1, i), space))])
       ELSE <<>>

\* 2. Question pattern completions
questionSuggestions(query, lowerQuery) ==
  flat([k \in 1..Len(questionPatterns) |->
          LET pattern == questionPatterns[k]
          IN  IF startsWith(lowerQuery, pattern)
              THEN LET remaining == trim(substring(lowerQuery, Len(pattern)))
                   IN  IF remaining # <<>>
                       THEN questionCompletions(pattern \o space \o remaining)
                       ELSE questionFillers(pattern)
              ELSE IF ~includes(lowerQuery, pattern)
                   THEN << pattern \o space \o query >>
                   ELSE <<>>])

\* As modifierSuggestions, but the modifier is put before the lowercased
\* and trimmed query
modifierSuggestions_lowerQuery(query, lowerQuery) ==
  flat([k \in 1..Len(modifiers) |->
          IF ~includes(lowerQuery, modifiers[k])
          THEN << modifiers[k] \o space \o lowerQuery >>
          ELSE <<>>])

\* 3. Modifier completions
modifierSuggestions(query, lowerQuery) ==
  flat([k \in 1..Len(modifiers) |->
          IF ~includes(lowerQuery, modifiers[k])
          THEN << modifiers[k] \o space \o query >>
          ELSE <<>>])

\* 4. Action completions
actionSuggestions(query, lowerQuery) ==
  flat([k \in 1..Len(actions) |->
          IF ~includes(lowerQuery, actions[k])
          THEN << actions[k] \o space \o query >>
          ELSE <<>>])

\* 5. Context-aware suggestions based on query content
topicSuggestions(lowerQuery) ==
  flat([k \in 1..Len(topics) |->
          IF \E t \in 1..Len(topics[k].triggers) :
                 includes(lowerQuery, topics[k].triggers[t])
          THEN topics[k].suggestions
          ELSE <<>>])

\* 6. Completions that extend the current query
extensionSuggestions(query, lowerQuery, words) ==
  IF words # <<>> /\ Len(words[Len(words)]) > 2
  THEN flat([k \in 1..Len(extensions) |->
               IF ~includes(lowerQuery, extensions[k])
               THEN << query \o space \o extensions[k] >>
               ELSE <<>>])
  ELSE <<>>

\* The array `suggestions` when the code reaches line 310
suggestionsPushed(query) ==
  LET lowerQuery == lowerQueryOf(query)
      words      == wordsOf(lowerQuery)
  IN  dynamicCompletions(words)
      \o questionSuggestions(query, lowerQuery)
      \o modifierSuggestions(query, lowerQuery)
      \o actionSuggestions(query, lowerQuery)
      \o topicSuggestions(lowerQuery)
      \o extensionSuggestions(query, lowerQuery, words)

---------------------------------------------------------------------------
(* Deduplication, filter and sort: route.ts:310-322 *)

\* As keepSuggestion, but nothing is filtered out
keepSuggestion_always(s, query, lowerQuery) == TRUE

keepSuggestion(s, query, lowerQuery) ==
  toLowerCase(s) # lowerQuery /\ toLowerCase(s) # query

\* As compareSuggestions, but without the priority of prefix matches
compareSuggestions_byLength(a, b, lowerQuery) == Len(a) - Len(b)

\* The comparator handed to Array.prototype.sort
compareSuggestions(a, b, lowerQuery) ==
  LET aExact == startsWith(toLowerCase(a), lowerQuery)
      bExact == startsWith(toLowerCase(b), lowerQuery)
  IN  IF aExact /\ ~bExact THEN 0 - 1
      ELSE IF ~aExact /\ bExact THEN 1
      ELSE Len(a) - Len(b)

\* Stable merge of two runs sorted by the comparator: an element of the left
\* run goes before the elements of the right run that do not sort strictly
\* before it.
mergeSuggestions(left, right, lowerQuery) ==
  LET posL == tuple([i \in 1..Len(left) |->
                 i + Cardinality({j \in 1..Len(right) :
                        compareSuggestions(right[j], left[i], lowerQuery) < 0})])
      posR == tuple([j \in 1..Len(right) |->
                 j + Cardinality({i \in 1..Len(left) :
                        compareSuggestions(left[i], right[j], lowerQuery) <= 0})])
  IN  tuple([k \in 1..(Len(left) + Len(right)) |->
         IF \E i \in 1..Len(left) : posL[i] = k
         THEN left[CHOOSE i \in 1..Len(left) : posL[i] = k]
         ELSE right[CHOOSE j \in 1..Len(right) : posR[j] = k]])

\* Array.prototype.sort with compareSuggestions: a stable merge sort
RECURSIVE sortSuggestions(_, _)
sortSuggestions(xs, lowerQuery) ==
  IF Len(xs) <= 1 THEN xs
  ELSE LET h == Len(xs) \div 2
       IN  mergeSuggestions(sortSuggestions(SubSeq(xs, 1, h), lowerQuery),
                            sortSuggestions(SubSeq(xs, h + 1, Len(xs)), lowerQuery),
                            lowerQuery)

\* As uniqueSuggestions, but without the pass through a Set
uniqueSuggestions_keepRepeats(query) ==
  LET lowerQuery == lowerQueryOf(query)
  IN  sortSuggestions(
        SelectSeq(suggestionsPushed(query),
                  LAMBDA s : keepSuggestion(s, query, lowerQuery)),
        lowerQuery)

\* As uniqueSuggestions, but the list is not sorted
uniqueSuggestions_unsorted(query) ==
  LET lowerQuery == lowerQueryOf(query)
  IN  SelectSeq(dedupe(suggestionsPushed(query)),
                LAMBDA s : keepSuggestion(s, query, lowerQuery))

uniqueSuggestions(query) ==
  LET lowerQuery == lowerQueryOf(query)
  IN  sortSuggestions(
        SelectSeq(dedupe(suggestionsPushed(query)),
                  LAMBDA s : keepSuggestion(s, query, lowerQuery)),
        lowerQuery)

---------------------------------------------------------------------------
(* The Map suggestionCache: entries in insertion order *)

mapHas(m, k) == \E i \in 1..Len(m) : m[i].key = k

mapGet(m, k) == m[CHOOSE i \in 1..Len(m) : m[i].key = k].value

\* Map.prototype.set: a new key goes last, an existing key keeps its place
mapSet(m, k, v) ==
  IF mapHas(m, k)
  THEN [i \in 1..Len(m) |-> IF m[i].key = k THEN [key |-> k, value |-> v] ELSE m[i]]
  ELSE Append(m, [key |-> k, value |-> v])

mapDelete(m, k) == SelectSeq(m, LAMBDA e : e.key # k)

\* m.keys().next().value: <<k>> for the first key, <<>> for undefined
mapFirstKey(m) == IF m = <<>> THEN <<>> ELSE << m[1].key >>

\* if (firstKey): undefined and the empty string are falsy
truthy(opt) == opt # <<>> /\ opt[1] # <<>>

mapKeys(m) == [i \in 1..Len(m) |-> m[i].key]

---------------------------------------------------------------------------
(* Inputs *)

\* The raw queries the requests carry.  Two of them differ only in case and
\* one is nothing but white space.
Queries ==
  { <<" ">>,
    <<"c", "o", "d", "e">>,
    <<"C", "o", "d", "e">>,
    <<"a", "i", " ", "e", "t", "h", "i", "c", "s">>,
    <<"w", "h", "a", "t", " ", "i", "s", " ", "a", "i">>,
    <<"h", "o", "w", " ", "t", "o">> }

\* A search parameter is <<>> when absent and <<value>> when present
QueryParams == { <<>>, << <<>> >> } \cup { <<q>> : q \in Queries }

LimitParams == { <<>>, << <<"0">> >>, << <<"x">> >> }

\* The requests of the concurrent specification
ConcQueryParams ==
  { << <<" ">> >>,
    << <<"c", "o", "d", "e">> >>,
    << <<"a", "i", " ", "e", "t", "h", "i", "c", "s">> >>,
    << <<"h", "o", "w", " ", "t", "o">> >> }

ConcLimitParams == { << <<"2">> >> }

\* url.searchParams.get(name) || fallback
orElse(param, fallback) ==
  IF param = <<>> \/ param[1] = <<>> THEN fallback ELSE param[1]

\* Queries that begin with a question starter, in two casings, or hold one
\* further in
QuestionQueries ==
  { <<"w", "h", "a", "t", " ", "i", "s", " ", "e", "n", "t", "r", "o", "p", "y">>,
    <<"W", "h", "a", "t", " ", "i", "s", " ", "E", "n", "t", "r", "o", "p", "y">>,
    <<"l", "e", "a", "r", "n", " ", "h", "o", "w", " ", "t", "o", " ", "c", "o", "d", "e">>,
    <<"h", "o", "w", " ", "t", "o">> }

QuestionQueryParams == { <<q>> : q \in QuestionQueries }

\* The full list each query of the input sets computes on a miss
\* (uniqueSuggestions is a function of the query alone).
uniqueSuggestionsOf ==
  [q \in Queries \cup QuestionQueries |-> uniqueSuggestions(q)]

---------------------------------------------------------------------------
(* The snippet of a search result, POST lines 47-71 *)

\* s.substring(start, end): each end is clamped to 0..s.length and the two
\* are swapped when start > end
substringRange(s, start, end) ==
  LET a == IF start < 0 THEN 0 ELSE IF start > Len(s) THEN Len(s) ELSE start
      b == IF end < 0 THEN 0 ELSE IF end > Len(s) THEN Len(s) ELSE end
  IN  IF a <= b THEN SubSeq(s, a + 1, b) ELSE SubSeq(s, b + 1, a)

\* Math.max
max(a, b) == IF a > b THEN a ELSE b

\* Line 51: the words of the lowercased query longer than 2 characters
queryWords(query) ==
  SelectSeq(split(toLowerCase(query), " "), LAMBDA word : Len(word) > 2)

\* Line 56: the lowercased window that starts at offset i
chunk(content, i) == toLowerCase(substringRange(content, i, i + 200))

\* Lines 57-59: reduce adds 1 for every element of queryWords the chunk
\* includes
matches(content, words, i) ==
  LET c == chunk(content, i)
  IN  Cardinality({k \in 1..Len(words) : includes(c, words[k])})

\* As scanWindows, but a later window with as many matches replaces the
\* best one
RECURSIVE scanWindows_lastBest(_, _, _, _, _)
scanWindows_lastBest(content, words, i, bestMatch, bestIndex) ==
  IF i < Len(content) - 100
  THEN LET m == matches(content, words, i)
       IN  IF m >= bestMatch /\ m > 0
           THEN scanWindows_lastBest(content, words, i + 50, m, i)
           ELSE scanWindows_lastBest(content, words, i + 50, bestMatch, bestIndex)
  ELSE [bestMatch |-> bestMatch, bestIndex |-> bestIndex]

\* As scanWindows, but a window is taken every 250 characters
RECURSIVE scanWindows_stride250(_, _, _, _, _)
scanWindows_stride250(content, words, i, bestMatch, bestIndex) ==
  IF i < Len(content) - 100
  THEN LET m == matches(content, words, i)
       IN  IF m > bestMatch
           THEN scanWindows_stride250(content, words, i + 250, m, i)
           ELSE scanWindows_stride250(content, words, i + 250, bestMatch, bestIndex)
  ELSE [bestMatch |-> bestMatch, bestIndex |-> bestIndex]

\* Lines 55-64: the loop from offset i on, with the best window so far
RECURSIVE scanWindows(_, _, _, _, _)
scanWindows(content, words, i, bestMatch, bestIndex) ==
  IF i < Len(content) - 100
  THEN LET m == matches(content, words, i)
       IN  IF m > bestMatch
           THEN scanWindows(content, words, i + 50, m, i)
           ELSE scanWindows(content, words, i + 50, bestMatch, bestIndex)
  ELSE [bestMatch |-> bestMatch, bestIndex |-> bestIndex]

\* bestIndex when the loop of lines 55-64 has ended
bestIndexOf(content, query) ==
  scanWindows(content, queryWords(query), 0, 0, 0).bestIndex

ellipsis == <<".", ".", ".">>

\* As snippetOf, but the window is searched from 200 characters on
snippetOf_windowFrom200(content, query) ==
  IF Len(content) > 200
  THEN LET bestIndex == bestIndexOf(content, query)
           text == substringRange(content, max(0, bestIndex - 50), bestIndex + 200)
           led  == IF bestIndex > 0 THEN ellipsis \o text ELSE text
       IN  IF bestIndex + 200 < Len(content) THEN led \o ellipsis ELSE led
  ELSE substringRange(content, 0, 300)

\* As snippetOf, but the text runs 300 characters from the window start
snippetOf_wideText(content, query) ==
  IF Len(content) > 300
  THEN LET bestIndex == bestIndexOf(content, query)
           text == substringRange(content, max(0, bestIndex - 50), bestIndex + 300)
           led  == IF bestIndex > 0 THEN ellipsis \o text ELSE text
       IN  IF bestIndex + 200 < Len(content) THEN led \o ellipsis ELSE led
  ELSE substringRange(content, 0, 300)

\* As snippetOf, but the trailing marker is also added when the window ends
\* exactly at the end of the content
snippetOf_trailingAtEnd(content, query) ==
  IF Len(content) > 300
  THEN LET bestIndex == bestIndexOf(content, query)
           text == substringRange(content, max(0, bestIndex - 50), bestIndex + 200)
           led  == IF bestIndex > 0 THEN ellipsis \o text ELSE text
       IN  IF bestIndex + 200 <= Len(content) THEN led \o ellipsis ELSE led
  ELSE substringRange(content, 0, 300)

\* Lines 48-71: the snippet of a result with this content
snippetOf(content, query) ==
  IF Len(content) > 300
  THEN LET bestIndex == bestIndexOf(content, query)
           text == substringRange(content, max(0, bestIndex - 50), bestIndex + 200)
           led  == IF bestIndex > 0 THEN ellipsis \o text ELSE text
       IN  IF bestIndex + 200 < Len(content) THEN led \o ellipsis ELSE led
  ELSE substringRange(content, 0, 300)

---------------------------------------------------------------------------
(* Inputs of the POST handler *)

\* A document body of len characters: every block of 50 characters starts
\* with "#" and its two-digit number, the rest is "-"; the words of `placed`
\* overwrite it at their offsets.
blockChar(i) ==
  IF i % 50 = 0 THEN "#"
  ELSE IF i % 50 = 1 THEN digits[(((i \div 50) \div 10) % 10) + 1]
  ELSE IF i % 50 = 2 THEN digits[((i \div 50) % 10) + 1]
  ELSE "-"

document(len, placed) ==
  tuple([k \in 1..len |->
     IF \E p \in placed : k - 1 >= p.at /\ k - 1 < p.at + Len(p.word)
     THEN LET p == CHOOSE p \in placed : k - 1 >= p.at /\ k - 1 < p.at + Len(p.word)
          IN  p.word[k - p.at]
     ELSE blockChar(k - 1)])

\* A word of 151 characters, the longest a window of 200 taken every 50
\* characters is sure to hold whole
longWord == tuple([k \in 1..151 |-> "z"])

Contents ==
  { document(0, {}),
    document(1, {}),
    document(300, {}),
    document(300, {[at |-> 250, word |-> <<"c", "a", "t">>]}),
    document(301, {}),
    document(301, {[at |-> 298, word |-> <<"c", "a", "t">>]}),
    document(350, {[at |-> 340, word |-> <<"d", "o", "g">>]}),
    document(400, {[at |-> 0, word |-> <<"c", "a", "t">>]}),
    document(400, {[at |-> 210, word |-> <<"c", "a", "t">>]}),
    document(400, {[at |-> 390, word |-> <<"C", "A", "T">>]}),
    document(400, {[at |-> 49, word |-> longWord]}),
    document(600, {[at |-> 0, word |-> <<"t", "h", "e">>], [at |-> 450, word |-> <<"c", "a", "t">>]}),
    document(1000, {[at |-> 500, word |-> <<"c", "a", "t">>]}),
    document(1000, {[at |-> 100, word |-> <<"C", "a", "t">>], [at |-> 600, word |-> <<"d", "o", "g">>],
                    [at |-> 610, word |-> <<"c", "a", "t">>]}) }
  \cup { document(1000, {[at |-> 100, word |-> <<"d", "o", "g">>],
                          [at |-> 600, word |-> <<"c", "a", "t">>]}) }
  \cup { document(400, {[at |-> at, word |-> <<"c", "a", "t">>]}) :
           at \in {149, 150, 198, 199, 200, 298, 397} }
  \cup { document(437, {[at |-> at, word |-> longWord]}) :
           at \in {0, 50, 99, 249, 286} }

\* The query strings of the request bodies
SearchQueries ==
  { <<"c", "a", "t">>,
    <<"t", "h", "e", " ", "C", "A", "T">>,
    <<"i", "s", " ", "i", "t">>,
    <<"c", "a", "t", " ", "d", "o", "g">>,
    <<"c", "a", "t", " ", "c", "a", "t", " ", "d", "o", "g">>,
    longWord }

\* The value of body.query: absent, a number or a string
QueryValues ==
  { [type |-> "undefined", value |-> <<>>],
    [type |-> "number", value |-> <<"5">>],
    [type |-> "string", value |-> <<>>] }
  \cup { [type |-> "string", value |-> q] : q \in SearchQueries }

\* What request.json() gives: a rejection (the body is no JSON) or an
\* object with a query
Bodies == { [json |-> FALSE, query |-> [type |-> "undefined", value |-> <<>>]] }
          \cup { [json |-> TRUE, query |-> v] : v \in QueryValues }

\* new URL(url) throws for a string that is no absolute URL; hostname for
\* the others
hostname == ("https://example.com/a" :> "example.com")
            @@ ("https://docs.example.org/b" :> "docs.example.org")

parsesAsURL(url) == url \in DOMAIN hostname

\* What tavilyClient.search resolves to: the results, each with url and
\* content
SearchResponses ==
  { <<>> }
  \cup { << [url |-> "https://example.com/a", content |-> c] >> : c \in Contents }
  \cup { << [url |-> "not a url", content |-> document(1, {})] >>,
         << [url |-> "https://example.com/a",
             content |-> document(400, {[at |-> 210, word |-> <<"c", "a", "t">>]})],
            [url |-> "https://docs.example.org/b", content |-> document(300, {})] >>,
         << [url |-> "https://example.com/a", content |-> document(300, {})],
            [url |-> "not a url", content |-> document(1, {})] >> }

\* What the chat completion resolves to: no choice at all, or a first choice
\* whose message content is empty or a text
Completions == { <<>>, <<"">>, <<"A summary of the results.">> }

fallbackSummary ==
  "Based on the search results, I found relevant information but was unable to generate a summary at this time."

---------------------------------------------------------------------------
(* State *)

VARIABLES
  suggestionCache,  \* the Map of route.ts:171
  requests,         \* per request slot: where its GET handler stands
  search,           \* where the POST handler stands, and its response
  env,              \* which of the Supabase variables the deployment sets
  session,          \* whether the browser's cookies stand for a user
  visit,            \* a page request on its way through middleware and page
  page,             \* the React state of the search page
  timer,            \* the debounce timer of the search page, if one is set
  suggestFetches,   \* the getSuggestions calls of the page not yet resolved
  searches          \* the search calls of the page not yet settled

vars == <<suggestionCache, requests, search, env, session, visit,
          page, timer, suggestFetches, searches>>

pageVars == <<page, timer, suggestFetches, searches>>

suggestVars == <<suggestionCache, requests>>

authVars == <<env, session, visit>>

\* Request slots: "r1" serves the requests of Spec one after the other,
\* SpecConc runs both at once.
Requests == {"r1", "r2"}

NoLimit == [nan |-> FALSE, n |-> 0]

\* pc: "idle" (no request yet), "awaiting" (the handler is suspended at the
\* await of line 160), "closed" (as awaiting, but the client has gone),
\* "done" (the response was sent).
\* called, hit, evicted describe the call of generateUltraFastSuggestions the
\* handler made; repeatsEviction says that the slot's call just before this
\* one had the same query and limit and was a miss that evicted an entry.
\* thrown says that the handler went through its catch; status is the
\* status of the response sent (0 before it is sent) and suggestions the
\* list in its body.
IdleRequest ==
  [pc |-> "idle", query |-> <<>>, limit |-> NoLimit, called |-> FALSE,
   hit |-> FALSE, evicted |-> FALSE, repeatsEviction |-> FALSE,
   thrown |-> FALSE, status |-> 0, suggestions |-> <<>>]

\* The POST handler before a request.  pc: "idle", "searching" (suspended at
\* the await of line 33), "summarizing" (suspended at the await of line 104),
\* "done" (the response was sent).  searchCalled and summaryCalled say
\* whether the handler called the search provider and the LLM; thrown is
\* where the handler threw, if it did: "json" (line 15), "search" (line 33),
\* "results" (lines 43-88) or "summary" (lines 96-120).
NoResponse ==
  [status |-> 0, detail |-> "", results |-> <<>>, total_results |-> 0,
   ai_summary |-> ""]

\* body is what request.json() gave and keys says which of the two API keys
\* process.env held when the handler started.
NoBody == [json |-> FALSE, query |-> [type |-> "undefined", value |-> <<>>]]

IdleSearch ==
  [pc |-> "idle", body |-> NoBody,
   keys |-> [TAVILY_API_KEY |-> FALSE, OPENAI_API_KEY |-> FALSE],
   query |-> <<>>, searchResponse |-> <<>>, results |-> <<>>,
   searchCalled |-> FALSE, summaryCalled |-> FALSE, thrown |-> {},
   response |-> NoResponse]

\* No page request under way
NoVisit ==
  [pc |-> "idle", path |-> <<>>, user |-> FALSE, middleware |-> "none",
   redirectedFrom |-> <<>>, page |-> "none"]

\* The search page when it is mounted (page.tsx:12-17)
MountedPage ==
  [query |-> <<>>, isLoading |-> FALSE, chat |-> <<>>, sugs |-> <<>>,
   selectedSuggestion |-> -1]

Init ==
  /\ page = MountedPage
  /\ timer = <<>>
  /\ suggestFetches = {}
  /\ searches = <<>>
  /\ suggestionCache = <<>>
  /\ requests = [r \in Requests |-> IdleRequest]
  /\ search = IdleSearch
  /\ env = [NEXT_PUBLIC_SUPABASE_URL |-> TRUE, NEXT_PUBLIC_SUPABASE_ANON_KEY |-> TRUE]
  /\ session = FALSE
  /\ visit = NoVisit

\* As generateUltraFastSuggestions, but a hit moves its entry to the end of
\* the Map (delete, then set), as an access-ordered cache does.
generateUltraFastSuggestions_touchOnHit(m, query, limit) ==
  LET lowerQuery == lowerQueryOf(query)
  IN  IF mapHas(m, lowerQuery)
      THEN [cache |-> mapSet(mapDelete(m, lowerQuery), lowerQuery,
                             mapGet(m, lowerQuery)),
            hit |-> TRUE,
            result |-> slice0(mapGet(m, lowerQuery), limit)]
      ELSE LET unique   == uniqueSuggestionsOf[query]
               stored   == mapSet(m, lowerQuery, unique)
               firstKey == mapFirstKey(stored)
               kept     == IF Len(stored) > MaxCacheSize /\ truthy(firstKey)
                           THEN mapDelete(stored, firstKey[1])
                           ELSE stored
           IN  [cache |-> kept, hit |-> FALSE,
                result |-> slice0(unique, limit)]

\* As generateUltraFastSuggestions, but a hit stores the list of the query
\* as typed over the cached one.
generateUltraFastSuggestions_rewriteOnHit(m, query, limit) ==
  LET lowerQuery == lowerQueryOf(query)
  IN  IF mapHas(m, lowerQuery)
      THEN [cache |-> mapSet(m, lowerQuery, uniqueSuggestionsOf[query]),
            hit |-> TRUE,
            result |-> slice0(mapGet(m, lowerQuery), limit)]
      ELSE LET unique   == uniqueSuggestionsOf[query]
               stored   == mapSet(m, lowerQuery, unique)
               firstKey == mapFirstKey(stored)
               kept     == IF Len(stored) > MaxCacheSize /\ truthy(firstKey)
                           THEN mapDelete(stored, firstKey[1])
                           ELSE stored
           IN  [cache |-> kept, hit |-> FALSE,
                result |-> slice0(unique, limit)]

\* As generateUltraFastSuggestions, but the array cached is `suggestions`,
\* the candidates as pushed, instead of uniqueSuggestions.
generateUltraFastSuggestions_cachePushed(m, query, limit) ==
  LET lowerQuery == lowerQueryOf(query)
  IN  IF mapHas(m, lowerQuery)
      THEN [cache |-> m, hit |-> TRUE,
            result |-> slice0(mapGet(m, lowerQuery), limit)]
      ELSE LET unique   == uniqueSuggestionsOf[query]
               stored   == mapSet(m, lowerQuery, suggestionsPushed(query))
               firstKey == mapFirstKey(stored)
               kept     == IF Len(stored) > MaxCacheSize /\ truthy(firstKey)
                           THEN mapDelete(stored, firstKey[1])
                           ELSE stored
           IN  [cache |-> kept, hit |-> FALSE,
                result |-> slice0(unique, limit)]

\* generateUltraFastSuggestions(query, limit) run on cache m: the cache it
\* leaves and the array it returns.  The function has no await, so the call
\* runs to completion inside the step that makes it.
generateUltraFastSuggestions(m, query, limit) ==
  LET lowerQuery == lowerQueryOf(query)
  IN  IF mapHas(m, lowerQuery)
      THEN [cache |-> m, hit |-> TRUE,
            result |-> slice0(mapGet(m, lowerQuery), limit)]
      ELSE LET unique   == uniqueSuggestionsOf[query]
               stored   == mapSet(m, lowerQuery, unique)
               firstKey == mapFirstKey(stored)
               kept     == IF Len(stored) > MaxCacheSize /\ truthy(firstKey)
                           THEN mapDelete(stored, firstKey[1])
                           ELSE stored
           IN  [cache |-> kept, hit |-> FALSE,
                result |-> slice0(unique, limit)]

\* GET, lines 150-160: the handler runs from its start up to the await
GET(r, queryParam, limitParam) ==
  /\ requests[r].pc \in {"idle", "done"}
  /\ UNCHANGED <<search, authVars, pageVars>>
  /\ LET query == orElse(queryParam, <<>>)
         limit == parseInt(orElse(limitParam, <<"1", "0">>))
     IN  IF query = <<>>
         THEN /\ requests' = [requests EXCEPT ![r] =
                   [pc |-> "done", query |-> query, limit |-> limit,
                    called |-> FALSE, hit |-> FALSE, evicted |-> FALSE,
                    repeatsEviction |-> FALSE, thrown |-> FALSE,
                    status |-> 200, suggestions |-> <<>>]]
              /\ UNCHANGED suggestionCache
         ELSE LET call == generateUltraFastSuggestions(suggestionCache, query, limit)
                  same == /\ requests[r].called
                          /\ requests[r].query = query
                          /\ requests[r].limit = limit
              IN  /\ suggestionCache' = call.cache
                  /\ requests' = [requests EXCEPT ![r] =
                       [pc |-> "awaiting", query |-> query, limit |-> limit,
                        called |-> TRUE, hit |-> call.hit,
                        evicted |-> Len(call.cache) <= Len(suggestionCache) /\ ~call.hit,
                        repeatsEviction |-> same /\ requests[r].evicted,
                        thrown |-> FALSE, status |-> 0,
                        suggestions |-> call.result]]

\* As GETThrows, but the catch answers with an error response
GETThrows_errorResponse(r) ==
  /\ requests[r].pc \in {"idle", "done"}
  /\ requests' = [requests EXCEPT ![r] =
       [IdleRequest EXCEPT !.pc = "done", !.thrown = TRUE, !.status = 500]]
  /\ UNCHANGED <<suggestionCache, search, authVars, pageVars>>

\* GET, lines 150-151 and 163-166: new URL(request.url) throws and the
\* catch answers { suggestions: [] }
GETThrows(r) ==
  /\ requests[r].pc \in {"idle", "done"}
  /\ requests' = [requests EXCEPT ![r] =
       [IdleRequest EXCEPT !.pc = "done", !.thrown = TRUE, !.status = 200]]
  /\ UNCHANGED <<suggestionCache, search, authVars, pageVars>>

\* GET, lines 160-162: the await resumes and the response is sent; nobody
\* reads the response of a closed request
Respond(r) ==
  /\ requests[r].pc \in {"awaiting", "closed"}
  /\ requests' = [requests EXCEPT ![r] =
       IF requests[r].pc = "closed" THEN IdleRequest
       ELSE [requests[r] EXCEPT !.pc = "done", !.status = 200]]
  /\ UNCHANGED <<suggestionCache, search, authVars, pageVars>>

\* The client abandons a request whose handler is suspended
Abandon(r) ==
  /\ requests[r].pc = "awaiting"
  /\ requests' = [requests EXCEPT ![r].pc = "closed"]
  /\ UNCHANGED <<suggestionCache, search, authVars, pageVars>>

\* Requests served one at a time
Next ==
  \/ \E qp \in QueryParams, lp \in LimitParams : GET("r1", qp, lp)
  \/ GETThrows("r1")
  \/ Respond("r1")

Spec == Init /\ [][Next]_vars

\* Requests in flight together, some of them abandoned
NextConc ==
  \E r \in Requests :
    \/ \E qp \in ConcQueryParams, lp \in ConcLimitParams : GET(r, qp, lp)
    \/ GETThrows(r)
    \/ Respond(r)
    \/ Abandon(r)

SpecConc == Init /\ [][NextConc]_vars

\* Requests, one at a time, with the question queries
NextQuestions ==
  \/ \E qp \in QuestionQueryParams, lp \in LimitParams : GET("r1", qp, lp)
  \/ GETThrows("r1")
  \/ Respond("r1")

SpecQuestions == Init /\ [][NextQuestions]_vars

---------------------------------------------------------------------------
(* The POST handler, lines 13-147 *)

\* !query for the value of body.query
falsy(v) ==
  \/ v.type = "undefined"
  \/ v.type = "string" /\ v.value = <<>>
  \/ v.type = "number" /\ v.value = <<"0">>

\* Lines 43-88: the response entry of the index-th result (score in
\* hundredths)
processResult(result, index, query) ==
  [url |-> result.url,
   snippet |-> snippetOf(result.content, query),
   content |-> result.content,
   score |-> 100 - (index * 5),
   domain |-> hostname[result.url]]

\* searchResponse.results.map(...)
processResults(searchResponse, query) ==
  tuple([k \in 1..Len(searchResponse) |->
           processResult(searchResponse[k], k - 1, query)])

\* NextResponse.json({ detail }, { status })
errorResponse(status, detail) ==
  [status |-> status, detail |-> detail, results |-> <<>>,
   total_results |-> 0, ai_summary |-> ""]

\* Lines 128-139
searchResult(results, aiSummary) ==
  [status |-> 200, detail |-> "", results |-> results,
   total_results |-> Len(results), ai_summary |-> aiSummary]

\* Lines 140-146: the outer catch
searchFailed(at) ==
  [IdleSearch EXCEPT
     !.pc = "done", !.body = search.body, !.keys = search.keys,
     !.query = search.query,
     !.searchResponse = search.searchResponse,
     !.searchCalled = search.searchCalled,
     !.summaryCalled = search.summaryCalled,
     !.thrown = {at},
     !.response = errorResponse(500, "Search failed")]

\* As POST, but the OpenAI key is not looked at before the search is called
POST_searchBeforeOpenAIKey(body, TAVILY_API_KEY, OPENAI_API_KEY) ==
  /\ search.pc \in {"idle", "done"}
  /\ UNCHANGED <<suggestVars, authVars, pageVars>>
  /\ LET started == [IdleSearch EXCEPT
                       !.body = body,
                       !.keys = [TAVILY_API_KEY |-> TAVILY_API_KEY,
                                 OPENAI_API_KEY |-> OPENAI_API_KEY]]
     IN  search' =
           IF ~body.json
           THEN [started EXCEPT !.pc = "done", !.thrown = {"json"},
                                !.response = errorResponse(500, "Search failed")]
           ELSE IF falsy(body.query) \/ body.query.type # "string"
           THEN [started EXCEPT !.pc = "done",
                                !.response = errorResponse(400, "Query is required")]
           ELSE IF ~TAVILY_API_KEY
           THEN [started EXCEPT !.pc = "done", !.query = body.query.value,
                                !.response = errorResponse(500, "Tavily API key not configured")]
           ELSE [started EXCEPT !.pc = "searching", !.query = body.query.value,
                                !.searchCalled = TRUE]

\* Lines 14-33: from the start of the handler to the await of the search
POST(body, TAVILY_API_KEY, OPENAI_API_KEY) ==
  /\ search.pc \in {"idle", "done"}
  /\ UNCHANGED <<suggestVars, authVars, pageVars>>
  /\ LET started == [IdleSearch EXCEPT
                       !.body = body,
                       !.keys = [TAVILY_API_KEY |-> TAVILY_API_KEY,
                                 OPENAI_API_KEY |-> OPENAI_API_KEY]]
     IN  search' =
           IF ~body.json
           THEN [started EXCEPT !.pc = "done", !.thrown = {"json"},
                                !.response = errorResponse(500, "Search failed")]
           ELSE IF falsy(body.query) \/ body.query.type # "string"
           THEN [started EXCEPT !.pc = "done",
                                !.response = errorResponse(400, "Query is required")]
           ELSE IF ~TAVILY_API_KEY
           THEN [started EXCEPT !.pc = "done", !.query = body.query.value,
                                !.response = errorResponse(500, "Tavily API key not configured")]
           ELSE IF ~OPENAI_API_KEY
           THEN [started EXCEPT !.pc = "done", !.query = body.query.value,
                                !.response = errorResponse(500, "OpenAI API key not configured")]
           ELSE [started EXCEPT !.pc = "searching", !.query = body.query.value,
                                !.searchCalled = TRUE]

\* Lines 33-104: the search resolved; the results are processed and the
\* handler is suspended at the await of the chat completion
SearchResolves(searchResponse) ==
  /\ search.pc = "searching"
  /\ UNCHANGED <<suggestVars, authVars, pageVars>>
  /\ search' =
       IF \E k \in 1..Len(searchResponse) : ~parsesAsURL(searchResponse[k].url)
       THEN [searchFailed("results") EXCEPT !.searchResponse = searchResponse]
       ELSE [search EXCEPT !.pc = "summarizing",
                           !.searchResponse = searchResponse,
                           !.results = processResults(searchResponse, search.query),
                           !.summaryCalled = TRUE]

\* Line 33 throws: the search call was rejected
SearchRejects ==
  /\ search.pc = "searching"
  /\ UNCHANGED <<suggestVars, authVars, pageVars>>
  /\ search' = searchFailed("search")

\* Lines 104-139: the completion resolved
SummaryResolves(completion) ==
  /\ search.pc = "summarizing"
  /\ UNCHANGED <<suggestVars, authVars, pageVars>>
  /\ LET aiSummary == IF completion = <<>> \/ completion[1] = ""
                      THEN "Unable to generate summary."
                      ELSE completion[1]
     IN  search' = [search EXCEPT !.pc = "done",
                      !.response = searchResult(search.results, aiSummary)]

\* As SummaryRejects, but the rejection reaches the outer catch
SummaryRejects_toOuterCatch ==
  /\ search.pc = "summarizing"
  /\ UNCHANGED <<suggestVars, authVars, pageVars>>
  /\ search' = [searchFailed("summary") EXCEPT !.results = search.results]

\* Lines 121-139: the completion call was rejected; the inner catch sets
\* the fallback summary
SummaryRejects ==
  /\ search.pc = "summarizing"
  /\ UNCHANGED <<suggestVars, authVars, pageVars>>
  /\ search' = [search EXCEPT !.pc = "done", !.thrown = {"summary"},
                  !.response = searchResult(search.results, fallbackSummary)]

NextSearch ==
  \/ \E body \in Bodies, tavilyKey \in BOOLEAN, openaiKey \in BOOLEAN :
       POST(body, tavilyKey, openaiKey)
  \/ \E searchResponse \in SearchResponses : SearchResolves(searchResponse)
  \/ SearchRejects
  \/ \E completion \in Completions : SummaryResolves(completion)
  \/ SummaryRejects

SpecSearch == Init /\ [][NextSearch]_vars

---------------------------------------------------------------------------
(* The /account pages: middleware, account page, login and sign-out *)

accountPrefix == <<"/", "a", "c", "c", "o", "u", "n", "t">>

loginPath == <<"/", "l", "o", "g", "i", "n">>

homePath == <<"/">>

\* The paths the browser asks for
Paths ==
  { <<"/">>, <<"/", "l", "o", "g", "i", "n">>, <<"/", "a", "c", "c", "o", "u", "n", "t">>, <<"/", "a", "c", "c", "o", "u", "n", "t", "/">>, <<"/", "a", "c", "c", "o", "u", "n", "t", "/", "s", "e", "t", "t", "i", "n", "g", "s">>,
    <<"/", "a", "c", "c", "o", "u", "n", "t", "/", "b", "i", "l", "l", "i", "n", "g", "/", "i", "n", "v", "o", "i", "c", "e", "s">>, <<"/", "a", "c", "c", "o", "u", "n", "t", "i", "n", "g">> }

\* config.matcher ['/account/:path*']: /account and every path below it
matcher(path) ==
  path = accountPrefix \/ startsWith(path, accountPrefix \o <<"/">>)

\* !supabaseUrl || !supabaseAnonKey
unconfigured ==
  ~env.NEXT_PUBLIC_SUPABASE_URL \/ ~env.NEXT_PUBLIC_SUPABASE_ANON_KEY

\* A request for path by a browser whose cookies stand for a user or not:
\* middleware lines 22-51 when the matcher selects the path, up to the
\* await of getUser
navigate(path, user) ==
  IF ~matcher(path)
  THEN [NoVisit EXCEPT !.pc = "page", !.path = path, !.user = user]
  ELSE IF unconfigured
  THEN [NoVisit EXCEPT !.pc = "page", !.path = path, !.user = user,
                       !.middleware = "next"]
  ELSE [NoVisit EXCEPT !.pc = "getUser", !.path = path, !.user = user]

Navigate(path) ==
  /\ visit.pc \in {"idle", "done"}
  /\ visit' = navigate(path, session)
  /\ UNCHANGED <<suggestVars, search, env, session, pageVars>>

\* middleware lines 51-59: getUser resolved
MiddlewareResumes ==
  /\ visit.pc = "getUser"
  /\ visit' =
       IF ~visit.user /\ startsWith(visit.path, accountPrefix)
       THEN [visit EXCEPT !.pc = "done", !.middleware = "redirect",
                          !.redirectedFrom = visit.path]
       ELSE [visit EXCEPT !.pc = "page", !.middleware = "next"]
  /\ UNCHANGED <<suggestVars, search, env, session, pageVars>>

\* The page the request reaches.  AccountPage (account/page.tsx:5-19)
\* redirects to /login when a variable is missing or there is no user; no
\* other page exists below /account.
RenderPage ==
  /\ visit.pc = "page"
  /\ visit' =
       [visit EXCEPT !.pc = "done",
          !.page = IF visit.path = accountPrefix
                   THEN (IF unconfigured \/ ~visit.user THEN "redirect" ELSE "account")
                   ELSE IF visit.path = loginPath THEN "login"
                   ELSE IF visit.path = homePath THEN "home"
                   ELSE "notFound"]
  /\ UNCHANGED <<suggestVars, search, env, session, pageVars>>

\* LoginPage.onSubmit (login/page.tsx:15-26) with a password that is
\* accepted: the session starts and router.push('/account') asks for the
\* account page
SignIn ==
  /\ visit.pc = "done" /\ visit.page = "login"
  /\ ~unconfigured
  /\ session' = TRUE
  /\ visit' = navigate(accountPrefix, TRUE)
  /\ UNCHANGED <<suggestVars, search, env, pageVars>>

\* The sign-out form of the account page: POST /auth/sign-out
\* (auth/sign-out/route.ts:4-13) ends the session and redirects to /
SignOut ==
  /\ visit.pc = "done" /\ visit.page = "account"
  /\ session' = IF unconfigured THEN session ELSE FALSE
  /\ visit' = navigate(homePath, session')
  /\ UNCHANGED <<suggestVars, search, env, pageVars>>

\* Every deployment: each of the two variables set or not; the browser may
\* hold the cookies of an earlier session
InitAuth ==
  /\ page = MountedPage
  /\ timer = <<>>
  /\ suggestFetches = {}
  /\ searches = <<>>
  /\ suggestionCache = <<>>
  /\ requests = [r \in Requests |-> IdleRequest]
  /\ search = IdleSearch
  /\ env \in [{"NEXT_PUBLIC_SUPABASE_URL", "NEXT_PUBLIC_SUPABASE_ANON_KEY"} -> BOOLEAN]
  /\ session \in BOOLEAN
  /\ visit = NoVisit

NextAuth ==
  \/ \E path \in Paths : Navigate(path)
  \/ MiddlewareResumes
  \/ RenderPage
  \/ SignIn
  \/ SignOut

SpecAuth == InitAuth /\ [][NextAuth]_vars

---------------------------------------------------------------------------
(* The search page, app/page.tsx:11-93 *)

\* The searches one page starts
MaxSubmissions == 2

\* What the input can hold after onChange
Texts == { <<>>, <<" ">>, <<"a">> }

\* What getSuggestions resolves to (search-client.ts:42-67): the list the
\* server sent for the query, or [] when the fetch failed, the response was
\* not ok or it carried no list
listFor(q) ==
  IF q = <<"a">> THEN << q \o <<" ", "g", "u", "i", "d", "e">>, q \o <<" ", "v", "s">> >> ELSE << q \o <<" ", "g", "u", "i", "d", "e">> >>

SuggestionResponses(q) == { <<>>, listFor(q) }

\* How a search call settles (search-client.ts:32-40): it throws when the
\* response is not ok, else it resolves to the body, whose ai_summary may
\* be missing or empty
aiSummary == <<"S", "u", "m", "m", "a", "r", "y", ".">>

SearchOutcomes ==
  { [ok |-> FALSE, ai_summary |-> <<>>],
    [ok |-> TRUE, ai_summary |-> <<>>],
    [ok |-> TRUE, ai_summary |-> aiSummary] }

noSummary == <<"N", "o", " ", "s", "u", "m", "m", "a", "r", "y", " ", "a", "v", "a", "i", "l", "a", "b", "l", "e", ".">>

wentWrong == <<"S", "o", "m", "e", "t", "h", "i", "n", "g", " ", "w", "e", "n", "t", " ", "w", "r", "o", "n", "g", ".">>

message(role, content) == [role |-> role, content |-> content]

\* The searches the page has started: one user message each
submitted(chat) == Len(SelectSeq(chat, LAMBDA m : m.role = "user"))

\* The effect of page.tsx:20-41 when a render has changed query: the
\* cleanup clears the timer of the render before; an empty query clears the
\* suggestions, any other sets a new timer
afterQueryChange(p, query) ==
  IF Len(query) < 1
  THEN [page |-> [p EXCEPT !.query = query, !.sugs = <<>>,
                           !.selectedSuggestion = -1],
        timer |-> <<>>]
  ELSE [page |-> [p EXCEPT !.query = query], timer |-> <<query>>]

\* onChange of the input, page.tsx:150
Change(text) ==
  /\ text # page.query
  /\ page' = afterQueryChange(page, text).page
  /\ timer' = afterQueryChange(page, text).timer
  /\ UNCHANGED <<suggestVars, search, authVars, suggestFetches, searches>>

\* The timer of page.tsx:28-38 fires: getSuggestions(query, 15) is called
\* with the query of the render that set the timer
TimerFires ==
  /\ timer # <<>>
  /\ timer' = <<>>
  /\ suggestFetches' = suggestFetches \cup {timer[1]}
  /\ UNCHANGED <<suggestVars, search, authVars, page, searches>>

\* page.tsx:30-32: the await of getSuggestions resumes.  The calls in flight
\* are kept as a set: two calls for one text resolve as one.
SuggestionsArrive(q, list) ==
  /\ q \in suggestFetches
  /\ suggestFetches' = suggestFetches \ {q}
  /\ page' = [page EXCEPT !.sugs = list, !.selectedSuggestion = -1]
  /\ UNCHANGED <<suggestVars, search, authVars, timer, searches>>

\* handleSubmit(q), page.tsx:43-52, up to the await of search(text); q is
\* <<>> for a call without argument and <<s>> for handleSubmit(s)
handleSubmit(q) ==
  LET text == trim(IF q = <<>> THEN page.query ELSE q[1])
  IN  IF text = <<>>
      THEN UNCHANGED <<page, timer, searches>>
      ELSE /\ submitted(page.chat) < MaxSubmissions
           /\ page' = [page EXCEPT
                         !.isLoading = TRUE, !.sugs = <<>>,
                         !.selectedSuggestion = -1,
                         !.chat = Append(page.chat, message("user", text)),
                         !.query = <<>>]
           /\ timer' = IF page.query # <<>> THEN <<>> ELSE timer
           /\ searches' = Append(searches, text)

\* The search button, page.tsx:157-159
ClickSearch ==
  /\ ~page.isLoading /\ trim(page.query) # <<>>
  /\ handleSubmit(<<>>)
  /\ UNCHANGED <<suggestVars, search, authVars, suggestFetches>>

\* An entry of the dropdown, page.tsx:173-186
ClickSuggestion(i) ==
  /\ ~page.isLoading /\ i \in 1..Len(page.sugs)
  /\ handleSubmit(<<page.sugs[i]>>)
  /\ UNCHANGED <<suggestVars, search, authVars, suggestFetches>>

\* As ArrowDown, but the index is raised whatever the length of the list
ArrowDown_unbounded ==
  /\ Len(page.sugs) # 0
  /\ page' = [page EXCEPT !.selectedSuggestion = page.selectedSuggestion + 1]
  /\ UNCHANGED <<suggestVars, search, authVars, timer, suggestFetches, searches>>

\* handleKeyDown, page.tsx:66-75
ArrowDown ==
  /\ Len(page.sugs) # 0
  /\ page' = [page EXCEPT !.selectedSuggestion =
                IF page.selectedSuggestion < Len(page.sugs) - 1
                THEN page.selectedSuggestion + 1
                ELSE page.selectedSuggestion]
  /\ UNCHANGED <<suggestVars, search, authVars, timer, suggestFetches, searches>>

\* handleKeyDown, page.tsx:76-79
ArrowUp ==
  /\ Len(page.sugs) # 0
  /\ page' = [page EXCEPT !.selectedSuggestion =
                IF page.selectedSuggestion > 0
                THEN page.selectedSuggestion - 1
                ELSE -1]
  /\ UNCHANGED <<suggestVars, search, authVars, timer, suggestFetches, searches>>

\* handleKeyDown, page.tsx:80-87
Enter ==
  /\ Len(page.sugs) # 0
  /\ IF page.selectedSuggestion >= 0 /\ page.selectedSuggestion < Len(page.sugs)
     THEN handleSubmit(<<page.sugs[page.selectedSuggestion + 1]>>)
     ELSE handleSubmit(<<>>)
  /\ UNCHANGED <<suggestVars, search, authVars, suggestFetches>>

\* handleKeyDown, page.tsx:88-91
Escape ==
  /\ Len(page.sugs) # 0
  /\ page' = [page EXCEPT !.sugs = <<>>, !.selectedSuggestion = -1]
  /\ UNCHANGED <<suggestVars, search, authVars, timer, suggestFetches, searches>>

\* As SearchSettles, but a failed search adds no message
SearchSettles_silentFailure(i, outcome) ==
  /\ i \in 1..Len(searches)
  /\ searches' = SubSeq(searches, 1, i - 1) \o SubSeq(searches, i + 1, Len(searches))
  /\ page' = [page EXCEPT
                !.chat = IF ~outcome.ok THEN page.chat
                         ELSE Append(page.chat, message("assistant",
                                IF outcome.ai_summary # <<>>
                                THEN outcome.ai_summary ELSE noSummary)),
                !.isLoading = FALSE]
  /\ UNCHANGED <<suggestVars, search, authVars, timer, suggestFetches>>

\* page.tsx:52-62: the await of the i-th unsettled search resumes or throws
SearchSettles(i, outcome) ==
  /\ i \in 1..Len(searches)
  /\ searches' = SubSeq(searches, 1, i - 1) \o SubSeq(searches, i + 1, Len(searches))
  /\ page' = [page EXCEPT
                !.chat = Append(page.chat, message("assistant",
                           IF ~outcome.ok THEN wentWrong
                           ELSE IF outcome.ai_summary # <<>>
                                THEN outcome.ai_summary ELSE noSummary)),
                !.isLoading = FALSE]
  /\ UNCHANGED <<suggestVars, search, authVars, timer, suggestFetches>>

NextPage ==
  \/ \E text \in Texts : Change(text)
  \/ TimerFires
  \/ \E q \in Texts : \E list \in SuggestionResponses(q) : SuggestionsArrive(q, list)
  \/ ClickSearch
  \/ \E i \in 1..2 : ClickSuggestion(i)
  \/ ArrowDown
  \/ ArrowUp
  \/ Enter
  \/ Escape
  \/ \E i \in 1..MaxSubmissions, outcome \in SearchOutcomes : SearchSettles(i, outcome)

SpecPage == Init /\ [][NextPage]_vars

---------------------------------------------------------------------------
(* Properties *)

\* The step in which the handler of slot r calls generateUltraFastSuggestions
CallStep(r) ==
  /\ requests[r].pc \in {"idle", "done"}
  /\ requests'[r].pc = "awaiting"

\* The cache key of the call that slot r has made
keyOf(r) == lowerQueryOf(requests[r].query)

\* C1: once a call of generateUltraFastSuggestions has returned, the cache
\* holds no more entries than its bound (1000 in the code, MaxCacheSize
\* here), whatever the queries were, a query of white space included.
C1_CacheBounded == Len(suggestionCache) <= MaxCacheSize

\* C2: a miss that leaves more entries than the bound after storing removes
\* exactly one entry, the one inserted earliest, so that the keys are the
\* old keys without the first one followed by the new key; a hit leaves the
\* order of the keys, and with it the next entry to evict, as it was.
C2_EvictsOldestInserted ==
  [][\A r \in Requests :
       CallStep(r) =>
         LET key == lowerQueryOf(requests'[r].query)
         IN  IF mapHas(suggestionCache, key)
             THEN mapKeys(suggestionCache') = mapKeys(suggestionCache)
             ELSE Len(suggestionCache) + 1 > MaxCacheSize =>
                    mapKeys(suggestionCache')
                      = Tail(mapKeys(suggestionCache)) \o <<key>>]_vars

\* C3: whatever calls filled the cache before, a call returns the list that
\* the same raw query and limit return when the cache is empty.
C3_SameAsFromEmptyCache ==
  \A r \in Requests :
    requests[r].called =>
      requests[r].suggestions
        = generateUltraFastSuggestions(<<>>, requests[r].query,
                                       requests[r].limit).result

min(a, b) == IF a < b THEN a ELSE b

\* C4: a call whose normalized query is a cache key leaves the cache as it
\* was, entries and order, and returns the first `limit` elements of the
\* cached list in cached order (limit a number >= 0).
C4_HitReturnsCachedPrefix ==
  [][\A r \in Requests :
       (CallStep(r)
          /\ mapHas(suggestionCache, trim(toLowerCase(requests'[r].query)))) =>
         LET cached == mapGet(suggestionCache,
                              trim(toLowerCase(requests'[r].query)))
             limit  == requests'[r].limit
         IN  /\ suggestionCache' = suggestionCache
             /\ (~limit.nan /\ limit.n >= 0) =>
                  requests'[r].suggestions
                    = SubSeq(cached, 1, min(limit.n, Len(cached)))]_vars

\* A hit that returned a non-empty list from a cache of several entries, on
\* an entry that is not the newest
C4_Witness ==
  \E r \in Requests :
    /\ requests[r].called /\ requests[r].hit
    /\ requests[r].suggestions # <<>>
    /\ Len(suggestionCache) > 1
    /\ suggestionCache[Len(suggestionCache)].key # keyOf(r)

\* C5: two calls in a row with the same query and the same limit return the
\* same list (requests are served one at a time in Spec, so the call a slot
\* made before is the call just before).
C5_RepeatedCallSameList ==
  [][(/\ CallStep("r1")
      /\ requests["r1"].called
      /\ requests'["r1"].query = requests["r1"].query
      /\ requests'["r1"].limit = requests["r1"].limit) =>
       requests'["r1"].suggestions = requests["r1"].suggestions]_vars

\* The second of two such calls, the first of which was a miss that evicted
C5_Witness ==
  /\ requests["r1"].called /\ requests["r1"].hit
  /\ requests["r1"].repeatsEviction
  /\ requests["r1"].suggestions # <<>>

\* C6: the list stored under a key never changes while the key stays in the
\* cache; a key enters the cache only in a call that misses on it; a key
\* leaves the cache only in a miss that takes the cache over its bound.
C6_EntriesWrittenOnce ==
  [][/\ \A i \in 1..Len(suggestionCache) :
          \A j \in 1..Len(suggestionCache') :
            suggestionCache[i].key = suggestionCache'[j].key =>
              suggestionCache[i].value = suggestionCache'[j].value
     /\ \A j \in 1..Len(suggestionCache') :
          ~mapHas(suggestionCache, suggestionCache'[j].key) =>
            \E r \in Requests :
              /\ CallStep(r)
              /\ lowerQueryOf(requests'[r].query) = suggestionCache'[j].key
     /\ \A i \in 1..Len(suggestionCache) :
          ~mapHas(suggestionCache', suggestionCache[i].key) =>
            /\ Len(suggestionCache) + 1 > MaxCacheSize
            /\ \E r \in Requests :
                 /\ CallStep(r)
                 /\ ~mapHas(suggestionCache,
                            lowerQueryOf(requests'[r].query))]_vars

\* A miss has just evicted an entry, and an entry that stays in the cache
\* holds the list of the query that missed on its key (the list the other
\* casing of that query computes is a different one)
C6_Witness ==
  \E r \in Requests :
    /\ requests[r].called /\ requests[r].evicted
    /\ \E i \in 1..Len(suggestionCache) :
         \E q \in Queries :
           /\ lowerQueryOf(q) = suggestionCache[i].key
           /\ suggestionCache[i].key # keyOf(r)
           /\ suggestionCache[i].value # uniqueSuggestionsOf[q]

isPrefixMatch(s, lowerQuery) == startsWith(toLowerCase(s), lowerQuery)

firstIndex(xs, s) ==
  CHOOSE i \in 1..Len(xs) : xs[i] = s /\ \A j \in 1..(i - 1) : xs[j] # s

isPrefixOf(xs, ys) == Len(xs) <= Len(ys) /\ xs = SubSeq(ys, 1, Len(xs))

\* list holds, once each, the candidates pushed for query q that differ
\* from the query, prefix matches first and shorter before longer
isComplete(list, q) ==
  LET lowerQuery == lowerQueryOf(q)
      kept == {s \in range(suggestionsPushed(q)) :
                 toLowerCase(s) # lowerQuery /\ toLowerCase(s) # q}
      pm   == tuple([i \in 1..Len(list) |-> isPrefixMatch(list[i], lowerQuery)])
  IN  /\ range(list) = kept
      /\ Len(list) = Cardinality(kept)
      /\ \A i \in 1..(Len(list) - 1) :
           /\ pm[i + 1] => pm[i]
           /\ pm[i] = pm[i + 1] => Len(list[i]) <= Len(list[i + 1])

\* The queries of the input set whose computed list is complete
completeQueries == {q \in Queries : isComplete(uniqueSuggestionsOf[q], q)}

\* C7: with requests in flight together, some of them abandoned, every call
\* does its lookup, computation, store and eviction in one step (the function
\* has no await), so every cache value is at all times a complete list
\* computed for its key: deduplicated, filtered and sorted.
C7_CacheValuesComplete ==
  \A i \in 1..Len(suggestionCache) :
    \E q \in completeQueries :
      /\ lowerQueryOf(q) = suggestionCache[i].key
      /\ suggestionCache[i].value = uniqueSuggestionsOf[q]

\* Two handlers are suspended at their await at once, one of them for a
\* client that has gone, after a call that evicted
C7_Witness ==
  /\ requests["r1"].pc = "closed"
  /\ requests["r2"].pc = "awaiting"
  /\ requests["r2"].evicted
  /\ Len(suggestionCache) >= MaxCacheSize

\* C8: no entry of a returned list equals the trimmed query, case ignored,
\* whether the call was a miss or a hit.
C8_NeverTheQueryItself ==
  \A r \in Requests :
    requests[r].called =>
      \A i \in 1..Len(requests[r].suggestions) :
        toLowerCase(requests[r].suggestions[i])
          # toLowerCase(trim(requests[r].query))

\* The queries of the input set that are themselves among their candidates
selfSuggesting ==
  {q \in Queries :
     \E s \in range(suggestionsPushed(q)) : toLowerCase(s) = toLowerCase(trim(q))}

\* A hit has returned a non-empty list for a query that is among its own
\* candidates
C8_Witness ==
  \E r \in Requests :
    /\ requests[r].called /\ requests[r].hit
    /\ requests[r].query \in selfSuggesting
    /\ requests[r].suggestions # <<>>

\* C9: for a limit that is an integer >= 0 the returned list has at most
\* `limit` entries, on a miss and on a hit; limit 0 returns the empty list.
C9_AtMostLimit ==
  \A r \in Requests :
    (requests[r].called /\ ~requests[r].limit.nan /\ requests[r].limit.n >= 0) =>
      Len(requests[r].suggestions) <= requests[r].limit.n

\* A hit with limit 0 on a cached list that is not empty
C9_Witness ==
  \E r \in Requests :
    /\ requests[r].called /\ requests[r].hit
    /\ ~requests[r].limit.nan /\ requests[r].limit.n = 0
    /\ mapGet(suggestionCache, keyOf(r)) # <<>>

\* list is in the order the sort is to give for query q: every prefix match
\* before every other candidate; within each of the two groups shorter
\* before longer; candidates of one group and one length in the order in
\* which they were first pushed
isOrdered(list, q) ==
  LET lowerQuery == lowerQueryOf(q)
      pushed == suggestionsPushed(q)
      pm     == tuple([i \in 1..Len(list) |-> isPrefixMatch(list[i], lowerQuery)])
      seen   == tuple([i \in 1..Len(list) |-> firstIndex(pushed, list[i])])
  IN  \A i \in 1..Len(list) :
        \A j \in (i + 1)..Len(list) :
          /\ pm[j] => pm[i]
          /\ pm[i] = pm[j] => Len(list[i]) <= Len(list[j])
          /\ (pm[i] = pm[j] /\ Len(list[i]) = Len(list[j])) => seen[i] < seen[j]

\* The queries of the input set whose computed list is in that order
orderedQueries ==
  {q \in Queries :
     /\ range(uniqueSuggestionsOf[q]) \subseteq range(suggestionsPushed(q))
     /\ isOrdered(uniqueSuggestionsOf[q], q)}

\* C10: every list the cache stores, and every list a call returns (the
\* first entries of such a list), is in the order of isOrdered.
C10_PrefixFirstThenLength ==
  /\ \A i \in 1..Len(suggestionCache) :
       \E q \in orderedQueries :
         /\ lowerQueryOf(q) = suggestionCache[i].key
         /\ suggestionCache[i].value = uniqueSuggestionsOf[q]
  /\ \A r \in Requests :
       requests[r].called =>
         \E q \in orderedQueries :
           /\ lowerQueryOf(q) = keyOf(r)
           /\ isPrefixOf(requests[r].suggestions, uniqueSuggestionsOf[q])

\* A stored list with prefix matches and other candidates, two of them of
\* one length, part of which a call has returned
C10_Witness ==
  \E r \in Requests :
    /\ requests[r].called /\ mapHas(suggestionCache, keyOf(r))
    /\ Len(requests[r].suggestions) > 1
    /\ LET list == mapGet(suggestionCache, keyOf(r))
       IN  /\ isPrefixMatch(list[1], keyOf(r))
           /\ ~isPrefixMatch(list[Len(list)], keyOf(r))
           /\ \E i \in 1..(Len(list) - 1) : Len(list[i]) = Len(list[i + 1])

---------------------------------------------------------------------------
(* Uniqueness of suggestions, and the empty-query convention *)

noRepeat(list) == Cardinality(range(list)) = Len(list)

\* C11: no list the cache stores, and no list a call returns, holds a
\* string twice.
C11_NoStringTwice ==
  /\ \A i \in 1..Len(suggestionCache) : noRepeat(suggestionCache[i].value)
  /\ \A r \in Requests : noRepeat(requests[r].suggestions)

\* The queries for which the generation sources push one candidate more
\* than once
repeatingQueries == {q \in Queries : ~noRepeat(suggestionsPushed(q))}

\* A call for such a query has stored its list and returned part of it
C11_Witness ==
  \E r \in Requests :
    /\ requests[r].called /\ ~requests[r].hit
    /\ requests[r].query \in repeatingQueries
    /\ mapHas(suggestionCache, keyOf(r))
    /\ Len(requests[r].suggestions) > 1

\* C12: a request whose query is empty after trimming is answered with an
\* empty suggestions list.
C12_BlankQueryEmptyList ==
  \A r \in Requests :
    (requests[r].pc = "done" /\ trim(requests[r].query) = <<>>)
      => requests[r].suggestions = <<>>

---------------------------------------------------------------------------
(* The snippets of a search response *)

endsWith(s, p) == Len(p) <= Len(s) /\ SubSeq(s, Len(s) - Len(p) + 1, Len(s)) = p

\* The snippet without a leading and without a trailing "..."
stripMarkers(s) ==
  LET t == IF startsWith(s, ellipsis) THEN substring(s, 3) ELSE s
  IN  IF endsWith(t, ellipsis) THEN SubSeq(t, 1, Len(t) - 3) ELSE t

\* The offsets at which the lowercased content holds one of the words
occurrences(content, words) ==
  LET lower == toLowerCase(content)
  IN  {i \in 0..(Len(content) - 1) :
         \E k \in 1..Len(words) :
           /\ i + Len(words[k]) <= Len(lower)
           /\ SubSeq(lower, i + 1, i + Len(words[k])) = words[k]}

\* C13: the snippet of a content of at most 300 characters is the content.
C13_ShortContentUnchanged ==
  \A k \in 1..Len(search.results) :
    Len(search.results[k].content) <= 300
      => search.results[k].snippet = search.results[k].content

\* A content of exactly 300 characters that holds a word of the query
C13_Witness ==
  \E k \in 1..Len(search.results) :
    /\ Len(search.results[k].content) = 300
    /\ occurrences(search.results[k].content, queryWords(search.query)) # {}
    /\ search.results[k].snippet = search.results[k].content

\* C14: the snippet of a content longer than 300 characters has at most 306
\* characters and, without its markers, is a contiguous part of the content.
C14_BoundedSubstring ==
  \A k \in 1..Len(search.results) :
    Len(search.results[k].content) > 300
      => /\ Len(search.results[k].snippet) <= 306
         /\ includes(search.results[k].content,
                     stripMarkers(search.results[k].snippet))

\* A snippet with both markers around the 50 characters of context and the
\* window of 200
C14_Witness ==
  \E k \in 1..Len(search.results) :
    /\ Len(search.results[k].content) > 300
    /\ Len(search.results[k].snippet) = 256
    /\ startsWith(search.results[k].snippet, ellipsis)
    /\ endsWith(search.results[k].snippet, ellipsis)

\* C15: when a word of the query (3 to 151 characters) occurs in a content
\* longer than 300 characters, the snippet holds an occurrence of a word of
\* the query; when the only occurrence in a content of 1000 characters is
\* at offset 500, the chosen window starts at or before 500 and ends after
\* the occurrence.
C15_SnippetHoldsToken ==
  \A k \in 1..Len(search.results) :
    LET content == search.results[k].content
        words   == queryWords(search.query)
        lower   == toLowerCase(content)
        best    == bestIndexOf(content, search.query)
    IN  /\ (/\ Len(content) > 300
            /\ \E j \in 1..Len(words) :
                 Len(words[j]) <= 151 /\ includes(lower, words[j]))
           => \E j \in 1..Len(words) :
                includes(toLowerCase(search.results[k].snippet), words[j])
        /\ (Len(content) = 1000 /\ occurrences(content, words) = {500})
           => /\ best <= 500
              /\ \E j \in 1..Len(words) :
                   /\ SubSeq(lower, 501, 500 + Len(words[j])) = words[j]
                   /\ 500 + Len(words[j]) <= best + 200

\* The only occurrence of a word of the query is at offset 500 of 1000
\* characters, and the snippet holds it
C15_Witness ==
  \E k \in 1..Len(search.results) :
    /\ Len(search.results[k].content) = 1000
    /\ occurrences(search.results[k].content, queryWords(search.query)) = {500}
    /\ includes(search.results[k].snippet, <<"c", "a", "t">>)

\* C16: the snippet of a content longer than 300 characters starts with
\* "..." exactly when its text does not begin at offset 0 of the content,
\* that is when max(0, window start - 50) > 0.
C16_LeadingMarkerIffClamped ==
  \A k \in 1..Len(search.results) :
    LET content == search.results[k].content
    IN  Len(content) > 300
          => (startsWith(search.results[k].snippet, ellipsis)
                <=> max(0, bestIndexOf(content, search.query) - 50) > 0)

\* C17: the snippet of a content longer than 300 characters ends with "..."
\* exactly when window start + 200 is less than the length of the content.
C17_TrailingMarkerIffWindowEndsEarly ==
  \A k \in 1..Len(search.results) :
    LET content == search.results[k].content
    IN  Len(content) > 300
          => (endsWith(search.results[k].snippet, ellipsis)
                <=> bestIndexOf(content, search.query) + 200 < Len(content))

\* The window ends exactly at the last character of the content: the text
\* of the snippet reaches it and no marker follows
C17_Witness ==
  \E k \in 1..Len(search.results) :
    LET content == search.results[k].content
    IN  /\ Len(content) > 300
        /\ bestIndexOf(content, search.query) + 200 = Len(content)
        /\ ~endsWith(search.results[k].snippet, ellipsis)
        /\ search.results[k].snippet[Len(search.results[k].snippet)]
             = content[Len(content)]

---------------------------------------------------------------------------
(* The answers of the GET handler *)

\* C19: every response of the GET handler is a success response with a
\* suggestions list, and the list is empty when the handler threw.
C19_AlwaysSuggestionsResponse ==
  \A r \in Requests :
    /\ requests[r].pc = "done" => requests[r].status = 200
    /\ requests[r].thrown
         => requests[r].pc = "done" /\ requests[r].suggestions = <<>>

\* The handler threw while the cache holds entries, and answered
C19_Witness ==
  \E r \in Requests :
    /\ requests[r].pc = "done" /\ requests[r].thrown
    /\ suggestionCache # <<>>

---------------------------------------------------------------------------
(* The faults of the POST handler *)

\* C20: when the completion call is rejected after the search resolved, the
\* response is a success with every processed result and the fallback
\* summary; the 500 'Search failed' response comes only from a throw
\* outside the summary step.
C20_SummaryFailureDegrades ==
  search.pc = "done" =>
    /\ "summary" \in search.thrown
         => /\ search.response.status = 200
            /\ search.response.ai_summary = fallbackSummary
            /\ search.response.total_results = Len(search.searchResponse)
            /\ search.response.results
                 = processResults(search.searchResponse, search.query)
    /\ search.response.detail = "Search failed"
         => /\ search.response.status = 500
            /\ search.thrown \in {{"json"}, {"search"}, {"results"}}

\* The completion call was rejected for a search with two results
C20_Witness ==
  /\ search.pc = "done"
  /\ search.summaryCalled /\ "summary" \in search.thrown
  /\ Len(search.response.results) = 2
  /\ search.response.ai_summary = fallbackSummary

---------------------------------------------------------------------------
(* Protection of the /account paths *)

underAccount(path) ==
  path = accountPrefix \/ startsWith(path, accountPrefix \o <<"/">>)

\* C18: a request without a user for a path under /account is not passed
\* on to the page: the middleware redirects it to /login and records the
\* path in redirectedFrom.
C18_UnauthenticatedAccountRedirected ==
  (visit.pc \in {"page", "done"} /\ underAccount(visit.path) /\ ~visit.user)
    => /\ visit.middleware = "redirect"
       /\ visit.redirectedFrom = visit.path
       /\ visit.page = "none"

---------------------------------------------------------------------------
(* The window the snippet is taken from *)

\* The starts of the windows the loop of lines 55-64 scans
scannedStarts(content) ==
  {i \in 0..Len(content) : i % 50 = 0 /\ i < Len(content) - 100}

\* The first of the scanned windows with the highest count of matches
firstBestWindow(content, words) ==
  CHOOSE i \in scannedStarts(content) :
    \A j \in scannedStarts(content) :
      /\ matches(content, words, j) <= matches(content, words, i)
      /\ j < i => matches(content, words, j) < matches(content, words, i)

\* C21: for a content longer than 300 characters the window chosen is the
\* first scanned window with the highest match count, and the snippet holds
\* that window; it is the window at offset 0 when no word of the query
\* is longer than 2 characters or none occurs in a window.
C21_FirstBestWindow ==
  \A k \in 1..Len(search.results) :
    LET content == search.results[k].content
        words   == queryWords(search.query)
        best    == bestIndexOf(content, search.query)
    IN  Len(content) > 300
          => /\ best = firstBestWindow(content, words)
             /\ includes(search.results[k].snippet,
                         substringRange(content, best, best + 200))
             /\ (\A i \in scannedStarts(content) : matches(content, words, i) = 0)
                  => /\ best = 0
                     /\ startsWith(search.results[k].snippet,
                                   substringRange(content, 0, 200))

\* Several scanned windows hold the one occurrence of the word, and the
\* first of them, which is not the window at 0, is in the snippet
C21_Witness ==
  \E k \in 1..Len(search.results) :
    LET content == search.results[k].content
        words   == queryWords(search.query)
        best    == firstBestWindow(content, words)
    IN  /\ Len(content) > 300
        /\ best > 0
        /\ Cardinality({i \in scannedStarts(content) :
              matches(content, words, i) = matches(content, words, best)}) > 1
        /\ includes(search.results[k].snippet,
                    substringRange(content, best, best + 200))

\* The query with every word after its first occurrence removed
distinctWords(query) == join(dedupe(split(query, " ")), " ")

\* C22: the score of a window is the number of distinct words of the query
\* that occur in it, so the snippet is the one of the query without its
\* repeated words.
C22_DistinctTokensScore ==
  \A k \in 1..Len(search.results) :
    LET content == search.results[k].content
        words   == queryWords(search.query)
    IN  Len(content) > 300
          => /\ \A i \in scannedStarts(content) :
                  matches(content, words, i)
                    = Cardinality({w \in range(words) : includes(chunk(content, i), w)})
             /\ search.results[k].snippet
                  = snippetOf(content, distinctWords(search.query))

---------------------------------------------------------------------------
(* The sources of the candidates *)

\* C23: in every stored list, a topic suggestion comes before the
\* candidates of the other sources that are in its prefix group and have
\* its length.
C23_TopicSuggestionsLead ==
  \A i \in 1..Len(suggestionCache) :
    LET lowerQuery == suggestionCache[i].key
        list       == suggestionCache[i].value
        topic      == range(topicSuggestions(lowerQuery))
        topicAt    == {a \in 1..Len(list) : list[a] \in topic}
    IN  \A a \in topicAt :
          \A b \in 1..Len(list) :
            (/\ b \notin topicAt
             /\ Len(list[b]) = Len(list[a])
             /\ isPrefixMatch(list[b], lowerQuery) = isPrefixMatch(list[a], lowerQuery))
              => a < b

\* The five completions of a question: "P R explained", ...
questionEndings ==
  << <<"e", "x", "p", "l", "a", "i", "n", "e", "d">>, <<"e", "x", "a", "m", "p", "l", "e", "s">>, <<"b", "e", "n", "e", "f", "i", "t", "s">>, <<"w", "o", "r", "k">>, <<"h", "e", "l", "p">> >>

\* The question starters the lowercased query begins with, with a remainder
startersOf(lowerQuery) ==
  {k \in 1..Len(questionPatterns) :
     /\ startsWith(lowerQuery, questionPatterns[k])
     /\ trim(substring(lowerQuery, Len(questionPatterns[k]))) # <<>>}

\* C24: after a miss for a query that begins with a question starter P and
\* has a remainder R, the stored list holds "P R explained", "P R examples",
\* "P R benefits", "P R work" and "P R help".
C24_QuestionCompletionsPresent ==
  \A r \in Requests :
    (requests[r].called /\ ~requests[r].hit)
      => /\ mapHas(suggestionCache, keyOf(r))
         /\ \A k \in startersOf(keyOf(r)) :
              \A e \in 1..Len(questionEndings) :
                questionPatterns[k] \o <<" ">>
                  \o trim(substring(keyOf(r), Len(questionPatterns[k])))
                  \o <<" ">> \o questionEndings[e]
                \in range(mapGet(suggestionCache, keyOf(r)))

\* A miss for "what is entropy" has stored "what is entropy explained"
C24_Witness ==
  \E r \in Requests :
    /\ requests[r].called /\ ~requests[r].hit
    /\ requests[r].query = <<"w", "h", "a", "t", " ", "i", "s", " ", "e", "n", "t", "r", "o", "p", "y">>
    /\ startersOf(keyOf(r)) # {}
    /\ <<"w", "h", "a", "t", " ", "i", "s", " ", "e", "n", "t", "r", "o", "p", "y", " ", "e", "x", "p", "l", "a", "i", "n", "e", "d">> \in range(mapGet(suggestionCache, keyOf(r)))
    /\ requests[r].suggestions # <<>>

\* The entries of the question-starter, modifier and action tables
prefixEntries == range(questionPatterns) \cup range(modifiers) \cup range(actions)

\* C25: after a miss, for every entry E of the three tables that is not a
\* substring of the lowercased query, "E " followed by the query as typed
\* is in the stored list; a question starter that the query holds, but not
\* at its start, heads none of the candidates the question patterns push.
C25_PrefixedCandidatesPresent ==
  \A r \in Requests :
    (requests[r].called /\ ~requests[r].hit)
      => /\ mapHas(suggestionCache, keyOf(r))
         /\ \A E \in prefixEntries :
              ~includes(keyOf(r), E)
                => E \o <<" ">> \o requests[r].query
                     \in range(mapGet(suggestionCache, keyOf(r)))
         /\ \A k \in 1..Len(questionPatterns) :
              (/\ includes(keyOf(r), questionPatterns[k])
               /\ ~startsWith(keyOf(r), questionPatterns[k]))
                => \A s \in range(questionSuggestions(requests[r].query, keyOf(r))) :
                     ~startsWith(s, questionPatterns[k] \o <<" ">>)

\* A miss for a query typed with capitals that holds a question starter
\* after its first word: the candidates keep the capitals, or the starter
\* heads no candidate
C25_Witness ==
  \E r \in Requests :
    /\ requests[r].called /\ ~requests[r].hit
    /\ mapHas(suggestionCache, keyOf(r))
    /\ \/ /\ requests[r].query = <<"W", "h", "a", "t", " ", "i", "s", " ", "E", "n", "t", "r", "o", "p", "y">>
          /\ <<"b", "e", "s", "t", " ", "W", "h", "a", "t", " ", "i", "s", " ", "E", "n", "t", "r", "o", "p", "y">> \in range(mapGet(suggestionCache, keyOf(r)))
          /\ <<"h", "o", "w", " ", "t", "o", " ", "W", "h", "a", "t", " ", "i", "s", " ", "E", "n", "t", "r", "o", "p", "y">> \in range(mapGet(suggestionCache, keyOf(r)))
       \/ /\ requests[r].query = <<"l", "e", "a", "r", "n", " ", "h", "o", "w", " ", "t", "o", " ", "c", "o", "d", "e">>
          /\ <<"s", "t", "u", "d", "y", " ", "l", "e", "a", "r", "n", " ", "h", "o", "w", " ", "t", "o", " ", "c", "o", "d", "e">> \in range(mapGet(suggestionCache, keyOf(r)))

---------------------------------------------------------------------------
(* The external calls of the POST handler *)

\* The body carries a query that is a non-empty string
hasQuery(body) ==
  body.json /\ body.query.type = "string" /\ body.query.value # <<>>

\* C26: the handler calls the search provider only for a non-empty string
\* query with both API keys set, and the LLM only when the search has
\* returned; a body whose query is missing or no string is answered 400 and
\* a missing key 500, without any call.
C26_NoCallWithoutQueryAndKeys ==
  /\ search.searchCalled
       => /\ hasQuery(search.body)
          /\ search.keys.TAVILY_API_KEY /\ search.keys.OPENAI_API_KEY
  /\ search.summaryCalled
       => /\ search.searchCalled
          /\ search.pc \in {"summarizing", "done"}
          /\ search.thrown \cap {"search", "results"} = {}
  /\ (search.pc = "done" /\ search.body.json /\ ~hasQuery(search.body))
       => /\ search.response.status = 400
          /\ ~search.searchCalled /\ ~search.summaryCalled
  /\ (/\ search.pc = "done" /\ hasQuery(search.body)
      /\ ~(search.keys.TAVILY_API_KEY /\ search.keys.OPENAI_API_KEY))
       => /\ search.response.status = 500
          /\ search.response.detail \in {"Tavily API key not configured",
                                         "OpenAI API key not configured"}
          /\ ~search.searchCalled /\ ~search.summaryCalled

\* A request with a query and the Tavily key but no OpenAI key was answered
\* 500 without a call
C26_Witness ==
  /\ search.pc = "done"
  /\ hasQuery(search.body)
  /\ search.keys.TAVILY_API_KEY /\ ~search.keys.OPENAI_API_KEY
  /\ search.response.detail = "OpenAI API key not configured"
  /\ ~search.searchCalled

---------------------------------------------------------------------------
(* The search page *)

\* The dropdown of page.tsx:173 is rendered
displayed == ~page.isLoading /\ Len(page.sugs) > 0

\* C27: a non-empty displayed suggestion list is the list of the text now in
\* the input; the list of a text already replaced, cleared or submitted is
\* never displayed.
C27_DisplayedListBelongsToInput ==
  displayed => page.sugs = listFor(page.query)

\* C28: the loading flag is true in every state in which a submitted search
\* has not yet settled.
C28_LoadingWhileSearchPending ==
  searches # <<>> => page.isLoading

\* C29: the selected index is -1 or an index of the current suggestion list,
\* -1 <= index < length, so that the entry Enter submits exists.
C29_SelectedIndexInRange ==
  /\ page.selectedSuggestion >= -1
  /\ page.selectedSuggestion < Len(page.sugs)

\* The last entry of a list of two is selected: ArrowDown has been pressed
\* up to the end of an arrived list
C29_Witness ==
  /\ Len(page.sugs) = 2
  /\ page.selectedSuggestion = 1

\* The contents handleSubmit gives an assistant message
assistantContents == { aiSummary, noSummary, wentWrong }

\* Enter is pressed on a blank input with a list but no selection:
\* handleSubmit() is called with a text that is empty after trimming
blankSubmission ==
  /\ Len(page.sugs) # 0
  /\ page.selectedSuggestion = -1
  /\ trim(page.query) = <<>>

\* A step that starts a search
submits == Len(searches') = Len(searches) + 1

\* A step in which a search settles
settles == Len(searches') = Len(searches) - 1

\* C30: a submission of a text that is non-empty after trimming appends one
\* user message with that text in the same step, the settling of its search
\* appends one assistant message (the summary, 'No summary available.' or
\* 'Something went wrong.'), a submission of a blank text changes nothing,
\* and no other step changes the chat, so that no message is removed or
\* reordered.
C30_ChatRecordsSubmissions ==
  /\ [](blankSubmission => ~ENABLED <<Enter>>_vars)
  /\ [][ /\ submits =>
              /\ trim(searches'[Len(searches')]) = searches'[Len(searches')]
              /\ searches'[Len(searches')] # <<>>
              /\ page'.chat = Append(page.chat,
                                message("user", searches'[Len(searches')]))
         /\ settles =>
              \E content \in assistantContents :
                page'.chat = Append(page.chat, message("assistant", content))
         /\ (~submits /\ ~settles) => page'.chat = page.chat ]_vars

\* Two searches were started one during the other and have both settled,
\* one failed and one without summary, and Enter is now pressed on a blank
\* input
C30_Witness ==
  /\ Len(page.chat) = 4
  /\ page.chat[1].role = "user" /\ page.chat[2].role = "user"
  /\ page.chat[3] = message("assistant", wentWrong)
  /\ page.chat[4] = message("assistant", noSummary)
  /\ blankSubmission

=============================================================================
